---- MODULE Spec2Model ----
(***************************************************************************)
(* The transactional file-mutation core of AMAA: the action ledger         *)
(* (core/undo.py UndoManager, BatchContext), the batch execution of an     *)
(* OrganizeSession (core/orchestrator.py Orchestrator.execute) and the     *)
(* single-task executor (agents/organizer.py OrganizerAgent.execute_task). *)
(*                                                                         *)
(* The filesystem is a map from a small set of paths to the content of the *)
(* file found there.  Path 1 is a plain name "f.ext" and path 1+k is its   *)
(* k-th duplicate name "f_k.ext"; every other name is outside the modelled *)
(* universe and never holds a file.  Directories are always creatable      *)
(* (mkdir(parents=True, exist_ok=True)) and are not part of the state.     *)
(***************************************************************************)
EXTENDS Integers, Sequences, FiniteSets, TLC

\* ------------------------------------------------------------- bounds
NPaths == 3
MaxRecords == 3
MaxChanges == 3
MaxBatches == 2
MaxTasks == 2
MaxDirect == 1
MaxCleanup == 3
MaxHistory == 2
MaxFill == 3
MaxMade == 2
MaxDirRecords == 3
MaxEntries == 2
MaxScans == 2
MaxRuns == 1

\* ------------------------------------------------- program constants
DupCap == 999

Paths == 1..NPaths
NoFile == 0
NoBatch == 0
NoAction == 0
NoError == ""

\* ActionType (the members the modelled callers and the undo dispatch use)
MOVE == "move"
COPY == "copy"
RENAME == "rename"
DELETE == "delete"
TAG == "tag"
CREATE_DIR == "create_dir"

\* OrganizeAction.SKIP
SKIP == "skip"

\* ActionStatus
PENDING == "pending"
EXECUTED == "executed"
UNDONE == "undone"
FAILED == "failed"

VARIABLES
    fs,         \* filesystem: path -> content of the file there, or NoFile
    ledger,     \* table action_history, in insertion (ascending id) order
    lastrowid,  \* the AUTOINCREMENT counter of action_history
    clock,      \* source of BatchContext.batch_id (a timestamp: never repeats)
    session,    \* Orchestrator._current_session
    run,        \* the activation of Orchestrator.execute and its BatchContext
    results,    \* the results dict of the last Orchestrator.execute
    agent,      \* the activation of OrganizerAgent.execute_task and its task
    ret,        \* the list of [id, status] the last undo call returned
    origin,     \* history: path -> the source_path of the forward mutation (move,
                \* copy, rename) that put the file now at the path there, else 0
    probe       \* the one directory looked at in detail.  For a conflict resolver:
                \* its listing, the desired name, the resolver and what it
                \* returned.  For a CREATE_DIR record: whether the directory is
                \* there, and its entries.  For proposal generation: the files
                \* under the root by folder and name, and the session.  For
                \* approve_single / reject_single by any index: what the call
                \* returned.  For the polling watcher: its fields and the disk

vars == <<fs, ledger, lastrowid, clock, session, run, results, agent, ret, origin, probe>>

\* ------------------------------------------------------------ helpers
Reverse(s) == [i \in 1..Len(s) |-> s[Len(s) + 1 - i]]

Exists(f, p) == p \in Paths /\ f[p] # NoFile

\* shutil.move / Path.rename of a file: the destination name is replaced.
shutil_move(f, src, dst) == [f EXCEPT ![dst] = f[src], ![src] = NoFile]

\* shutil.copy2 of a file.
shutil_copy2(f, src, dst) == [f EXCEPT ![dst] = f[src]]

\* Faulty variant: an unlink that removes nothing.
unlink_nothing(f, p) == f

\* Path.unlink.
unlink(f, p) == [f EXCEPT ![p] = NoFile]

\* ---------------------------------------------------- faulty variants
\* Wrong versions of three ledger operations: a property that holds of the
\* program is sensitive to the code only if it fails with one of these.

\* An INSERT that is lost: the mutation goes ahead with no record.
record_action_lost(L, id, type, src, dst, batch, backup) == L

\* A WHERE clause that takes every record not yet undone as undoable.
IsExecuted_not_undone(r) == r.status # "undone"

\* ORDER BY id ASC in place of DESC.
BatchRows_ascending(L, b) ==
    LET InBatch(r) == r.batch_id = b /\ r.status = "executed"
    IN  SelectSeq(L, InBatch)

\* ------------------------------------------------------------- ledger
ActionRecord(id, type, src, dst, batch, backup) ==
    [id |-> id, action_type |-> type, source_path |-> src,
     destination_path |-> dst, status |-> PENDING, batch_id |-> batch,
     backup_path |-> backup, error_message |-> NoError]

\* INSERT INTO action_history ... status = pending
record_action(L, id, type, src, dst, batch, backup) ==
    Append(L, ActionRecord(id, type, src, dst, batch, backup))

\* UPDATE action_history SET status = ? WHERE id = ?   (no check of the old status)
SetStatus(L, id, st) ==
    [i \in 1..Len(L) |-> IF L[i].id = id THEN [L[i] EXCEPT !.status = st] ELSE L[i]]

mark_executed(L, id) == SetStatus(L, id, EXECUTED)

mark_failed(L, id, msg) ==
    [i \in 1..Len(L) |->
        IF L[i].id = id
        THEN [L[i] EXCEPT !.status = FAILED, !.error_message = msg]
        ELSE L[i]]

mark_undone(L, id) == SetStatus(L, id, UNDONE)

IsExecuted(r) == r.status = EXECUTED

\* Faulty variant: ORDER BY id ASC, the oldest Executed record first.
ExecutedDesc_oldest(L) == SelectSeq(L, IsExecuted)

\* SELECT * WHERE status = executed ORDER BY id DESC
ExecutedDesc(L) == Reverse(SelectSeq(L, IsExecuted))

\* Faulty variant: rows that are already Undone are fetched again.
BatchRows_with_undone(L, b) ==
    LET InBatch(r) == r.batch_id = b /\ r.status \in {"executed", "undone"}
    IN  Reverse(SelectSeq(L, InBatch))

\* Faulty variant: the WHERE clause without "batch_id = ?".
BatchRows_any_batch(L, b) ==
    Reverse(SelectSeq(L, IsExecuted))

\* SELECT * WHERE batch_id = b AND status = executed ORDER BY id DESC
BatchRows(L, b) ==
    LET InBatch(r) == r.batch_id = b /\ r.status = EXECUTED
    IN  Reverse(SelectSeq(L, InBatch))

\* ------------------------------------------------------- undo engine
\* Faulty variant: the MOVE branch moves in the forward direction again.
perform_undo_forward(a, f) ==
    CASE a.action_type = MOVE ->
            IF Exists(f, a.destination_path)
            THEN [ok |-> TRUE, fs |-> shutil_move(f, a.source_path, a.destination_path)]
            ELSE [ok |-> FALSE, fs |-> f]
      [] a.action_type = COPY ->
            IF Exists(f, a.destination_path)
            THEN [ok |-> TRUE, fs |-> unlink(f, a.destination_path)]
            ELSE [ok |-> TRUE, fs |-> f]
      [] a.action_type = RENAME ->
            IF Exists(f, a.destination_path)
            THEN [ok |-> TRUE, fs |-> shutil_move(f, a.destination_path, a.source_path)]
            ELSE [ok |-> TRUE, fs |-> f]
      [] a.action_type = DELETE ->
            IF a.backup_path # NoFile /\ Exists(f, a.backup_path)
            THEN [ok |-> TRUE, fs |-> shutil_move(f, a.backup_path, a.source_path)]
            ELSE [ok |-> TRUE, fs |-> f]
      [] OTHER -> [ok |-> TRUE, fs |-> f]

\* UndoManager._perform_undo: [ok, fs].  A branch whose condition fails falls
\* through to the final "return True" unless it returns False itself.
perform_undo(a, f) ==
    CASE a.action_type = MOVE ->
            IF Exists(f, a.destination_path)
            THEN [ok |-> TRUE, fs |-> shutil_move(f, a.destination_path, a.source_path)]
            ELSE [ok |-> FALSE, fs |-> f]
      [] a.action_type = COPY ->
            IF Exists(f, a.destination_path)
            THEN [ok |-> TRUE, fs |-> unlink(f, a.destination_path)]
            ELSE [ok |-> TRUE, fs |-> f]
      [] a.action_type = RENAME ->
            IF Exists(f, a.destination_path)
            THEN [ok |-> TRUE, fs |-> shutil_move(f, a.destination_path, a.source_path)]
            ELSE [ok |-> TRUE, fs |-> f]
      [] a.action_type = DELETE ->
            IF a.backup_path # NoFile /\ Exists(f, a.backup_path)
            THEN [ok |-> TRUE, fs |-> shutil_move(f, a.backup_path, a.source_path)]
            ELSE [ok |-> TRUE, fs |-> f]
      [] OTHER -> [ok |-> TRUE, fs |-> f]

\* The loop of undo_batch over the fetched rows, in the order fetched.
RECURSIVE UndoRows(_, _, _, _)
UndoRows(rows, L, f, undone) ==
    IF rows = <<>>
    THEN [ledger |-> L, fs |-> f, undone |-> undone]
    ELSE LET a == Head(rows)
             r == perform_undo(a, f)
         IN  IF r.ok
             THEN UndoRows(Tail(rows), mark_undone(L, a.id), r.fs,
                           Append(undone, [id |-> a.id, status |-> UNDONE]))
             ELSE UndoRows(Tail(rows), L, r.fs, undone)

\* Faulty variant: the loop ends at the first record whose undo fails.
RECURSIVE UndoRows_until_failure(_, _, _, _)
UndoRows_until_failure(rows, L, f, undone) ==
    IF rows = <<>>
    THEN [ledger |-> L, fs |-> f, undone |-> undone]
    ELSE LET a == Head(rows)
             r == perform_undo(a, f)
         IN  IF r.ok
             THEN UndoRows_until_failure(Tail(rows), mark_undone(L, a.id), r.fs,
                           Append(undone, [id |-> a.id, status |-> UNDONE]))
             ELSE [ledger |-> L, fs |-> r.fs, undone |-> undone]

undo_batch_until_failure(L, f, b) == UndoRows_until_failure(BatchRows(L, b), L, f, <<>>)

undo_batch(L, f, b) == UndoRows(BatchRows(L, b), L, f, <<>>)

\* undo_last_action: [found, ledger, fs, action]
undo_last_action(L, f) ==
    LET rows == ExecutedDesc(L)
    IN  IF rows = <<>>
        THEN [found |-> FALSE, ledger |-> L, fs |-> f, action |-> <<>>]
        ELSE LET a == Head(rows)
                 r == perform_undo(a, f)
             IN  IF r.ok
                 THEN [found |-> TRUE, ledger |-> mark_undone(L, a.id), fs |-> r.fs,
                       action |-> <<[id |-> a.id, status |-> UNDONE]>>]
                 ELSE [found |-> TRUE, ledger |-> L, fs |-> r.fs,
                       action |-> <<[id |-> a.id, status |-> a.status]>>]

\* undo_n_actions: repeat undo_last_action n times, stop at the first None
RECURSIVE undo_n_actions(_, _, _, _)
undo_n_actions(n, L, f, undone) ==
    IF n = 0
    THEN [ledger |-> L, fs |-> f, undone |-> undone]
    ELSE LET u == undo_last_action(L, f)
         IN  IF u.found
             THEN undo_n_actions(n - 1, u.ledger, u.fs, undone \o u.action)
             ELSE [ledger |-> L, fs |-> f, undone |-> undone]

\* ------------------------------------------------- conflict resolver
\* The name "stem_k.ext" of a path: only path 1 has its duplicates in the universe.
Candidate(p, k) == IF p = 1 /\ 1 + k \in Paths THEN 1 + k ELSE NPaths + 1

\* OrganizerAgent._handle_duplicate: the path itself when free, else the first
\* free candidate, counter = 1, 2, ...; "Too many duplicates" past the cap.
\* 0 stands for the ValueError.
RECURSIVE DupLoop(_, _, _)
DupLoop(f, p, counter) ==
    IF ~Exists(f, Candidate(p, counter))
    THEN Candidate(p, counter)
    ELSE IF counter + 1 > DupCap THEN 0 ELSE DupLoop(f, p, counter + 1)

handle_duplicate(f, p) == IF ~Exists(f, p) THEN p ELSE DupLoop(f, p, 1)

\* ------------------------------------------------ orchestration session
ProposedChange(action, src, dst) ==
    [action |-> action, source_path |-> src, destination_path |-> dst,
     approved |-> FALSE, executed |-> FALSE, error |-> NoError]

OrganizeActions == {MOVE, COPY, RENAME, TAG}

\* The changes a session may hold (scan_and_analyze, load_session): every MOVE
\* between two paths, a COPY and a RENAME onto the last path, and one change of
\* a kind _execute_change does not execute.
ChangePool ==
    {ProposedChange(MOVE, s, d) : s \in Paths, d \in Paths}
    \cup {ProposedChange(COPY, 1, NPaths), ProposedChange(RENAME, 2, NPaths),
          ProposedChange(TAG, 1, 2)}

Sessions ==
    UNION {[1..n -> {c \in ChangePool : c.source_path # c.destination_path}] : n \in 0..MaxChanges}

OrganizeSession(changes) ==
    [changes |-> changes, executed |-> FALSE, batch_id |-> NoBatch, live |-> TRUE]

IdleRun ==
    [phase |-> "idle", queue |-> <<>>, k |-> 0, batch_id |-> NoBatch,
     current |-> NoAction, exc |-> NoError]

NoResults ==
    [dry_run |-> FALSE, executed |-> 0, failed |-> 0, skipped |-> 0,
     errors |-> <<>>, error |-> NoError]

IdleAgent ==
    [phase |-> "idle", action |-> MOVE, source |-> 0, destination |-> 0,
     current |-> NoAction, executed |-> FALSE, error |-> NoError]

Idle == run.phase = "idle" /\ agent.phase = "idle"

\* The directory at construction: a file at every path but the last, each with
\* its own content.
InitFs == [p \in Paths |-> IF p < NPaths THEN p ELSE NoFile]

NoReturn == <<>>

\* The history variable after a forward mutation src -> dst and after an undo.
Placed(o, action, src, dst) ==
    IF action = COPY THEN [o EXCEPT ![dst] = src]
    ELSE [o EXCEPT ![dst] = src, ![src] = 0]

\* The paths an undo call wrote: both ends of every move or rename it took
\* back, the destination of every copy it removed.
Touched(L, undone) ==
    {p \in Paths : \E k \in 1..Len(undone), i \in 1..Len(L) :
        /\ undone[k].status = UNDONE /\ L[i].id = undone[k].id
        /\ \/ p = L[i].destination_path
           \/ p = L[i].source_path /\ L[i].action_type # COPY}

Restored(o, L, f, g, undone) ==
    [p \in Paths |-> IF g[p] = f[p] /\ p \notin Touched(L, undone) THEN o[p] ELSE 0]

NoProbe == [fn |-> "none"]

Init ==
    /\ probe = NoProbe
    /\ fs = InitFs
    /\ ledger = <<>>
    /\ lastrowid = 0
    /\ clock = 1
    /\ session \in {OrganizeSession(c) : c \in Sessions}
    /\ run = IdleRun
    /\ results = NoResults
    /\ agent = IdleAgent
    /\ ret = NoReturn
    /\ origin = [p \in Paths |-> 0]

\* Orchestrator.approve_all
approve_all ==
    /\ Idle /\ session.live
    /\ session' = [session EXCEPT !.changes =
            [i \in 1..Len(session.changes) |-> [session.changes[i] EXCEPT !.approved = TRUE]]]
    /\ UNCHANGED <<fs, ledger, lastrowid, clock, run, results, agent, ret, origin, probe>>

\* Orchestrator.approve_single / reject_single
SetApproved(index, flag) ==
    /\ Idle /\ session.live
    /\ index \in 1..Len(session.changes)
    /\ session' = [session EXCEPT !.changes[index].approved = flag]
    /\ UNCHANGED <<fs, ledger, lastrowid, clock, run, results, agent, ret, origin, probe>>

approve_single == \E i \in 1..MaxChanges : SetApproved(i, TRUE)

reject_single == \E i \in 1..MaxChanges : SetApproved(i, FALSE)

\* Faulty variant: every change counts as approved.
ApprovedChanges_all(changes) == [i \in 1..Len(changes) |-> i]

\* approved_changes = [c for c in session.changes if c.approved], as indices
ApprovedChanges(changes) ==
    LET Approved(i) == changes[i].approved
    IN  SelectSeq([i \in 1..Len(changes) |-> i], Approved)

\* Faulty variant: an execute that does not look at dry_run.
execute_ignoring_dry_run(dry_run) ==
    /\ Idle /\ session.live
    /\ LET approved == ApprovedChanges(session.changes)
       IN  IF approved = <<>>
           THEN /\ results' = [NoResults EXCEPT !.dry_run = dry_run,
                                                !.error = "No approved changes"]
                /\ UNCHANGED <<session, run, clock>>
           ELSE /\ clock <= MaxBatches
                /\ clock' = clock + 1
                /\ session' = [session EXCEPT !.batch_id = clock]
                /\ run' = [IdleRun EXCEPT !.phase = "item", !.queue = approved,
                                          !.k = 1, !.batch_id = clock]
                /\ results' = [NoResults EXCEPT !.dry_run = dry_run]
    /\ UNCHANGED <<fs, ledger, lastrowid, agent, ret, origin, probe>>

\* Orchestrator.execute up to the first item: the no-session / no-approved /
\* dry-run returns, or the opening of the BatchContext.
execute(dry_run) ==
    /\ Idle /\ session.live
    /\ LET approved == ApprovedChanges(session.changes)
       IN  IF approved = <<>>
           THEN /\ results' = [NoResults EXCEPT !.dry_run = dry_run,
                                                !.error = "No approved changes"]
                /\ UNCHANGED <<session, run, clock>>
           ELSE IF dry_run
           THEN /\ results' = [NoResults EXCEPT !.dry_run = TRUE,
                                                !.executed = Len(approved)]
                /\ session' = [session EXCEPT !.executed = FALSE]
                /\ UNCHANGED <<run, clock>>
           ELSE /\ clock <= MaxBatches
                /\ clock' = clock + 1
                /\ session' = [session EXCEPT !.batch_id = clock]
                /\ run' = [IdleRun EXCEPT !.phase = "item", !.queue = approved,
                                          !.k = 1, !.batch_id = clock]
                /\ results' = NoResults
    /\ UNCHANGED <<fs, ledger, lastrowid, agent, ret, origin, probe>>

CurrentIndex == run.queue[run.k]

CurrentChange == session.changes[CurrentIndex]

\* _execute_change up to the physical mutation: BatchContext.record_move /
\* record_copy (RENAME is recorded with record_move), or "return False".
execute_change_record ==
    /\ run.phase = "item" /\ run.k <= Len(run.queue)
    /\ LET change == CurrentChange
       IN  IF change.action \in {MOVE, COPY, RENAME}
           THEN /\ Len(ledger) < MaxRecords
                /\ ledger' = record_action(ledger, lastrowid + 1,
                                IF change.action = COPY THEN COPY ELSE MOVE,
                                change.source_path, change.destination_path,
                                run.batch_id, NoFile)
                /\ lastrowid' = lastrowid + 1
                /\ run' = [run EXCEPT !.phase = "mutate", !.current = lastrowid + 1]
                /\ UNCHANGED results
           ELSE /\ results' = [results EXCEPT !.failed = @ + 1]
                /\ run' = [run EXCEPT !.k = @ + 1]
                /\ UNCHANGED <<ledger, lastrowid>>
    /\ UNCHANGED <<fs, clock, session, agent, ret, origin, probe>>

\* The physical mutation of _execute_change: shutil.move, shutil.copy2 or
\* Path.rename.  It raises when the source is missing or the OS refuses it.
execute_change_mutate(oserror) ==
    /\ run.phase = "mutate"
    /\ LET change == CurrentChange
       IN  IF ~Exists(fs, change.source_path) \/ oserror
           THEN /\ run' = [run EXCEPT !.phase = "except",
                            !.exc = IF Exists(fs, change.source_path)
                                    THEN "PermissionError" ELSE "FileNotFoundError"]
                /\ UNCHANGED <<fs, origin>>
           ELSE /\ fs' = IF change.action = COPY
                         THEN shutil_copy2(fs, change.source_path, change.destination_path)
                         ELSE shutil_move(fs, change.source_path, change.destination_path)
                /\ origin' = Placed(origin, change.action, change.source_path,
                                    change.destination_path)
                /\ run' = [run EXCEPT !.phase = "mark"]
    /\ UNCHANGED <<ledger, lastrowid, clock, session, results, agent, ret, probe>>

\* BatchContext.mark_success, "return True", and the success branch of execute.
execute_change_success ==
    /\ run.phase = "mark"
    /\ ledger' = IF run.current # NoAction THEN mark_executed(ledger, run.current) ELSE ledger
    /\ session' = [session EXCEPT !.changes[CurrentIndex].executed = TRUE]
    /\ results' = [results EXCEPT !.executed = @ + 1]
    /\ run' = [run EXCEPT !.phase = "item", !.k = @ + 1, !.current = NoAction]
    /\ UNCHANGED <<fs, lastrowid, clock, agent, ret, origin, probe>>

\* The "except Exception" branch of execute, with BatchContext.mark_failure.
execute_change_except ==
    /\ run.phase = "except"
    /\ ledger' = IF run.current # NoAction THEN mark_failed(ledger, run.current, run.exc) ELSE ledger
    /\ session' = [session EXCEPT !.changes[CurrentIndex].error = run.exc]
    /\ results' = [results EXCEPT !.failed = @ + 1, !.errors = Append(@, CurrentIndex)]
    /\ run' = [run EXCEPT !.phase = "item", !.k = @ + 1, !.current = NoAction,
                          !.exc = NoError]
    /\ UNCHANGED <<fs, lastrowid, clock, agent, ret, origin, probe>>

\* The loop is over: BatchContext.__exit__ without an exception, then
\* session.executed = not dry_run.
execute_return ==
    /\ run.phase = "item" /\ run.k > Len(run.queue)
    /\ session' = [session EXCEPT !.executed = TRUE]
    /\ run' = IdleRun
    /\ UNCHANGED <<fs, ledger, lastrowid, clock, results, agent, ret, origin, probe>>

\* An exception that leaves the with block (the progress callback raised before
\* an item): BatchContext.__exit__ rolls the batch back and the exception goes
\* on to the caller.
execute_raise ==
    /\ run.phase = "item" /\ run.k <= Len(run.queue)
    /\ LET u == undo_batch(ledger, fs, run.batch_id)
       IN  /\ ledger' = u.ledger
           /\ fs' = u.fs
           /\ origin' = Restored(origin, ledger, fs, u.fs, u.undone)
    /\ run' = IdleRun
    /\ UNCHANGED <<lastrowid, clock, session, results, agent, ret, probe>>

\* Orchestrator.undo_session
undo_session ==
    /\ Idle /\ session.live /\ session.batch_id # NoBatch
    /\ LET u == undo_batch(ledger, fs, session.batch_id)
       IN  /\ ledger' = u.ledger
           /\ fs' = u.fs
           /\ origin' = Restored(origin, ledger, fs, u.fs, u.undone)
           /\ ret' = u.undone
    /\ UNCHANGED <<lastrowid, clock, session, run, results, agent, probe>>

\* ------------------------------------------------- undo manager calls
UndoLast ==
    /\ Idle
    /\ LET u == undo_last_action(ledger, fs)
       IN  /\ ledger' = u.ledger
           /\ fs' = u.fs
           /\ origin' = Restored(origin, ledger, fs, u.fs, u.action)
           /\ ret' = u.action
    /\ UNCHANGED <<lastrowid, clock, session, run, results, agent, probe>>

UndoNOf(n) ==
    /\ Idle
    /\ LET u == undo_n_actions(n, ledger, fs, <<>>)
       IN  /\ ledger' = u.ledger
           /\ fs' = u.fs
           /\ origin' = Restored(origin, ledger, fs, u.fs, u.undone)
           /\ ret' = u.undone
    /\ UNCHANGED <<lastrowid, clock, session, run, results, agent, probe>>

UndoN == \E n \in 1..MaxRecords : UndoNOf(n)

UndoBatchOf(b) ==
    /\ Idle
    /\ LET u == undo_batch(ledger, fs, b)
       IN  /\ ledger' = u.ledger
           /\ fs' = u.fs
           /\ origin' = Restored(origin, ledger, fs, u.fs, u.undone)
           /\ ret' = u.undone
    /\ UNCHANGED <<lastrowid, clock, session, run, results, agent, probe>>

UndoBatch == \E b \in 1..MaxBatches : UndoBatchOf(b)

\* ------------------------------------------------------ organizer agent
TaskActions == {MOVE, COPY, RENAME}

\* OrganizerAgent.execute_task up to the physical mutation: the source check,
\* _handle_duplicate on the destination, the dry-run return, record_action.
\* An exception (the ValueError of _handle_duplicate) ends in task.error.
execute_task(action, source, destination, dry_run) ==
    /\ Idle /\ session.live /\ session.changes = <<>>
    /\ IF ~Exists(fs, source)
       THEN /\ agent' = [IdleAgent EXCEPT !.error = "Source not found"]
            /\ UNCHANGED <<ledger, lastrowid>>
       ELSE LET final_path == handle_duplicate(fs, destination)
            IN  /\ final_path \in Paths \cup {0}
                /\ IF final_path = 0
                   THEN /\ agent' = [IdleAgent EXCEPT !.error = "Too many duplicates"]
                        /\ UNCHANGED <<ledger, lastrowid>>
                   ELSE IF dry_run
                   THEN /\ agent' = [IdleAgent EXCEPT !.destination = final_path]
                        /\ UNCHANGED <<ledger, lastrowid>>
                   ELSE /\ Len(ledger) < MaxTasks
                        /\ ledger' = record_action(ledger, lastrowid + 1, action, source,
                                                   final_path, NoBatch, NoFile)
                        /\ lastrowid' = lastrowid + 1
                        /\ agent' = [IdleAgent EXCEPT !.phase = "mutate", !.action = action,
                                        !.source = source, !.destination = final_path,
                                        !.current = lastrowid + 1]
    /\ UNCHANGED <<fs, clock, session, run, results, ret, origin, probe>>

\* The physical mutation of execute_task; an exception ends in task.error and
\* the task is returned.
execute_task_mutate(oserror) ==
    /\ agent.phase = "mutate"
    /\ IF oserror
       THEN /\ agent' = [IdleAgent EXCEPT !.current = agent.current,
                                          !.error = "PermissionError"]
            /\ UNCHANGED <<fs, origin>>
       ELSE /\ fs' = IF agent.action = COPY
                     THEN shutil_copy2(fs, agent.source, agent.destination)
                     ELSE shutil_move(fs, agent.source, agent.destination)
            /\ origin' = Placed(origin, agent.action, agent.source, agent.destination)
            /\ agent' = [agent EXCEPT !.phase = "mark"]
    /\ UNCHANGED <<ledger, lastrowid, clock, session, run, results, ret, probe>>

\* mark_executed, task.destination, task.executed = True, return.
execute_task_return ==
    /\ agent.phase = "mark"
    /\ ledger' = mark_executed(ledger, agent.current)
    /\ agent' = [IdleAgent EXCEPT !.current = agent.current,
                                  !.destination = agent.destination,
                                  !.executed = TRUE]
    /\ UNCHANGED <<fs, lastrowid, clock, session, run, results, ret, origin, probe>>

\* The process dies between two steps of execute: the in-memory session and
\* activation are lost, the ledger and the filesystem stay as they are.
Crash ==
    /\ ~Idle
    /\ run' = IdleRun
    /\ agent' = IdleAgent
    /\ session' = [changes |-> <<>>, executed |-> FALSE, batch_id |-> NoBatch, live |-> FALSE]
    /\ UNCHANGED <<fs, ledger, lastrowid, clock, results, ret, origin, probe>>

Next ==
    \/ approve_all
    \/ \E dry_run \in BOOLEAN : execute(dry_run)
    \/ execute_change_record
    \/ \E oserror \in BOOLEAN : execute_change_mutate(oserror)
    \/ execute_change_success
    \/ execute_change_except
    \/ execute_return
    \/ execute_raise
    \/ \E action \in TaskActions, source \in Paths, destination \in Paths, dry_run \in BOOLEAN :
            execute_task(action, source, destination, dry_run)
    \/ \E oserror \in BOOLEAN : execute_task_mutate(oserror)
    \/ execute_task_return
    \/ undo_session
    \/ UndoLast
    \/ UndoN
    \/ UndoBatch
    \/ Crash

Spec == Init /\ [][Next]_vars

\* ------------------------------------------- direct use of UndoManager
\* A caller that uses the ledger the way the class docstring shows: it calls
\* record_action and the mark_* methods itself.
ActionTypes == {MOVE, COPY, RENAME, DELETE, TAG}

Direct == Idle /\ session.live /\ session.changes = <<>>

api_record_action(type, src, dst, batch, backup) ==
    /\ Direct
    /\ ledger' = record_action(ledger, lastrowid + 1, type, src, dst, batch, backup)
    /\ lastrowid' = lastrowid + 1
    /\ UNCHANGED <<fs, clock, session, run, results, agent, ret, origin, probe>>

api_mark_executed(id) ==
    /\ Direct
    /\ ledger' = mark_executed(ledger, id)
    /\ UNCHANGED <<fs, lastrowid, clock, session, run, results, agent, ret, origin, probe>>

api_mark_failed(id) ==
    /\ Direct
    /\ ledger' = mark_failed(ledger, id, "error")
    /\ UNCHANGED <<fs, lastrowid, clock, session, run, results, agent, ret, origin, probe>>

api_mark_undone(id) ==
    /\ Direct
    /\ ledger' = mark_undone(ledger, id)
    /\ UNCHANGED <<fs, lastrowid, clock, session, run, results, agent, ret, origin, probe>>

\* DELETE has no destination and may carry a backup_path in its metadata; the
\* other types have a destination and no metadata.
ApiRecord ==
    /\ Len(ledger) < MaxDirect
    /\ \E type \in ActionTypes, src \in Paths, batch \in {NoBatch, 1} :
        IF type = DELETE
        THEN \E backup \in {NoFile} \cup Paths : api_record_action(type, src, 0, batch, backup)
        ELSE \E dst \in Paths \ {src} : api_record_action(type, src, dst, batch, NoFile)

InitApi == Init /\ session.changes = <<>>

NextApi ==
    \/ ApiRecord
    \/ \E id \in 1..MaxDirect : api_mark_executed(id)
    \/ \E id \in 1..MaxDirect : api_mark_failed(id)
    \/ \E id \in 1..MaxDirect : api_mark_undone(id)
    \/ UndoLast
    \/ UndoN
    \/ UndoBatch

SpecApi == InitApi /\ [][NextApi]_vars

\* -------------------------------------------------- approval of items
\* One iteration of OrganizerAgent.execute_batch: an approved task goes to
\* execute_task, another one gets the error "Not approved".
execute_batch_item(approved, action, source, destination, dry_run) ==
    IF approved
    THEN execute_task(action, source, destination, dry_run)
    ELSE /\ Idle /\ session.live /\ session.changes = <<>>
         /\ agent' = [IdleAgent EXCEPT !.error = "Not approved"]
         /\ UNCHANGED <<fs, ledger, lastrowid, clock, session, run, results, ret, origin, probe>>

\* Sessions whose items are approved and rejected one by one before execute.
InitApproval ==
    /\ Init
    /\ \A i \in 1..Len(session.changes) : session.changes[i].action = MOVE

NextApproval ==
    \/ approve_all
    \/ approve_single
    \/ reject_single
    \/ execute(FALSE)
    \/ execute_change_record
    \/ execute_change_mutate(FALSE)
    \/ execute_change_success
    \/ execute_change_except
    \/ execute_return
    \/ \E approved \in BOOLEAN, action \in TaskActions, source \in Paths, destination \in Paths :
            execute_batch_item(approved, action, source, destination, FALSE)
    \/ execute_task_mutate(FALSE)
    \/ execute_task_return

SpecApproval == InitApproval /\ [][NextApproval]_vars

\* ---------------------------------------------- an unreachable ledger
\* BatchContext.record_move / record_copy raises because the store cannot be
\* written (sqlite3.OperationalError): nothing is inserted and the exception
\* reaches the "except Exception" of execute with no current action.
execute_change_record_fails ==
    /\ run.phase = "item" /\ run.k <= Len(run.queue)
    /\ CurrentChange.action \in {MOVE, COPY, RENAME}
    /\ run' = [run EXCEPT !.phase = "except", !.exc = "OperationalError"]
    /\ UNCHANGED <<fs, ledger, lastrowid, clock, session, results, agent, ret, origin, probe>>

NextStore ==
    \/ approve_all
    \/ execute(FALSE)
    \/ execute_change_record
    \/ execute_change_record_fails
    \/ \E oserror \in BOOLEAN : execute_change_mutate(oserror)
    \/ execute_change_success
    \/ execute_change_except
    \/ execute_return

SpecStore == Init /\ [][NextStore]_vars

\* ------------------------------------------ a status update that fails
\* BatchContext.mark_success raises after the physical mutation because the
\* UPDATE of mark_executed cannot be written (sqlite3.OperationalError): the
\* current action is still set when the exception reaches the "except
\* Exception" of execute, whose mark_failure then writes Failed.
execute_change_mark_fails ==
    /\ run.phase = "mark"
    /\ run.current # NoAction
    /\ run' = [run EXCEPT !.phase = "except", !.exc = "OperationalError"]
    /\ UNCHANGED <<fs, ledger, lastrowid, clock, session, results, agent, ret, origin, probe>>

NextMark ==
    \/ approve_all
    \/ execute(FALSE)
    \/ execute_change_record
    \/ \E oserror \in BOOLEAN : execute_change_mutate(oserror)
    \/ execute_change_success
    \/ execute_change_mark_fails
    \/ execute_change_except
    \/ execute_return

SpecMark == Init /\ [][NextMark]_vars

\* ------------------------------------------ approval by any index
\* The indices a caller may pass to approve_single / reject_single: Python
\* list indices, zero-based, negative ones and ones past the end included.
Indices == (0 - (MaxChanges + 1))..MaxChanges

NoSession == [changes |-> <<>>, executed |-> FALSE, batch_id |-> NoBatch, live |-> FALSE]

\* session.changes[index] of a Python list, as a position of the sequence:
\* a negative index counts from the end; 0 stands for IndexError.
ListItem(changes, index) ==
    IF index >= 0
    THEN IF index < Len(changes) THEN index + 1 ELSE 0
    ELSE IF Len(changes) + index >= 0 THEN Len(changes) + index + 1 ELSE 0

\* Orchestrator.approve_single / reject_single for any index: "if not session
\* or index >= len(session.changes): return False", then the assignment to
\* session.changes[index].approved, which raises IndexError below -len.
SetApprovedAt(fn, index, flag) ==
    /\ Idle
    /\ IF ~session.live \/ index >= Len(session.changes)
       THEN /\ probe' = [fn |-> fn, returned |-> "False"]
            /\ UNCHANGED session
       ELSE IF ListItem(session.changes, index) = 0
       THEN /\ probe' = [fn |-> fn, returned |-> "IndexError"]
            /\ UNCHANGED session
       ELSE /\ probe' = [fn |-> fn, returned |-> "True"]
            /\ session' = [session EXCEPT
                    !.changes[ListItem(session.changes, index)].approved = flag]
    /\ UNCHANGED <<fs, ledger, lastrowid, clock, run, results, agent, ret, origin>>

approve_single_at(index) == SetApprovedAt("approve_single", index, TRUE)

reject_single_at(index) == SetApprovedAt("reject_single", index, FALSE)

\* The sessions of this specification: up to MaxChanges moves of one of the
\* files onto the free path, or no session at all.
IndexSessions ==
    UNION {[1..n -> {ProposedChange(MOVE, s, NPaths) : s \in Paths \ {NPaths}}] :
                n \in 0..MaxChanges}

InitIndex ==
    /\ probe = NoProbe
    /\ fs = InitFs
    /\ ledger = <<>>
    /\ lastrowid = 0
    /\ clock = 1
    /\ session \in {OrganizeSession(c) : c \in IndexSessions} \cup {NoSession}
    /\ run = IdleRun
    /\ results = NoResults
    /\ agent = IdleAgent
    /\ ret = NoReturn
    /\ origin = [p \in Paths |-> 0]

NextIndex ==
    \/ \E index \in Indices : approve_single_at(index)
    \/ \E index \in Indices : reject_single_at(index)
    \/ approve_all
    \/ execute(FALSE)
    \/ execute_change_record
    \/ \E oserror \in BOOLEAN : execute_change_mutate(oserror)
    \/ execute_change_success
    \/ execute_change_except
    \/ execute_return

SpecIndex == InitIndex /\ [][NextIndex]_vars

\* ------------------------------------------ polling watcher
\* SimpleWatcher on two watched roots whose path strings are "/b" and "/bc",
\* each holding one file "f".  A path string is the sequence of its characters.
MaxMtime == 2

Absent == 0

Roots == {<<"/", "b">>, <<"/", "b", "c">>}

FilePaths == {root \o <<"/", "f">> : root \in Roots}

CREATED == "created"

MODIFIED == "modified"

DELETED == "deleted"

FileEvent(event_type, path) == [event_type |-> event_type, path |-> path]

\* str.startswith
StartsWith(s, prefix) ==
    Len(s) >= Len(prefix) /\ SubSeq(s, 1, Len(prefix)) = prefix

\* The files Path(root).rglob('*') yields: those below the directory root.
rglob(disk, root) ==
    {p \in FilePaths : StartsWith(p, root \o <<"/">>) /\ disk[p] # Absent}

\* probe of this specification: the watcher's fields (_paths, _file_states with
\* Absent for a missing key, _event_queue as the set of events not yet taken),
\* the files on disk with their mtime, and the files that were written or
\* removed since construction.
Watch(paths, file_states, queue, disk, touched) ==
    [fn |-> "watch", paths |-> paths, file_states |-> file_states, queue |-> queue,
     disk |-> disk, touched |-> touched]

InitWatcher ==
    /\ fs = InitFs /\ ledger = <<>> /\ lastrowid = 0 /\ clock = 1
    /\ session = NoSession
    /\ run = IdleRun /\ results = NoResults /\ agent = IdleAgent
    /\ ret = NoReturn /\ origin = [p \in Paths |-> 0]
    /\ probe \in {Watch({}, [p \in FilePaths |-> Absent], {}, disk, {}) :
                        disk \in [FilePaths -> {Absent, 1}]}

\* SimpleWatcher.add_watch with _scan_path
add_watch(root) ==
    /\ root \notin probe.paths
    /\ probe' = [probe EXCEPT
            !.paths = @ \cup {root},
            !.file_states = [p \in FilePaths |->
                IF p \in rglob(probe.disk, root) THEN probe.disk[p] ELSE @[p]]]
    /\ UNCHANGED <<fs, ledger, lastrowid, clock, session, run, results, agent, ret, origin>>

\* SimpleWatcher._check_changes(root), one call of the loop body of _poll_loop
check_changes(root) ==
    /\ root \in probe.paths
    /\ LET current_files == rglob(probe.disk, root)
           created  == {p \in current_files : probe.file_states[p] = Absent}
           modified == {p \in current_files :
                            probe.file_states[p] \notin {Absent, probe.disk[p]}}
           seen     == [p \in FilePaths |->
                            IF p \in current_files THEN probe.disk[p]
                            ELSE probe.file_states[p]]
           deleted  == {p \in FilePaths :
                            /\ seen[p] # Absent
                            /\ StartsWith(p, root)
                            /\ p \notin current_files}
       IN  probe' = [probe EXCEPT
                !.file_states = [p \in FilePaths |-> IF p \in deleted THEN Absent ELSE seen[p]],
                !.queue = @ \cup {FileEvent(CREATED, p) : p \in created}
                            \cup {FileEvent(MODIFIED, p) : p \in modified}
                            \cup {FileEvent(DELETED, p) : p \in deleted}]
    /\ UNCHANGED <<fs, ledger, lastrowid, clock, session, run, results, agent, ret, origin>>

\* SimpleWatcher.get_event
get_event ==
    /\ \E e \in probe.queue : probe' = [probe EXCEPT !.queue = @ \ {e}]
    /\ UNCHANGED <<fs, ledger, lastrowid, clock, session, run, results, agent, ret, origin>>

\* Another process writes a file below a watched root (created or modified,
\* with a new mtime) or removes it.
write_file(p, mtime) ==
    /\ mtime # probe.disk[p]
    /\ probe' = [probe EXCEPT !.disk[p] = mtime, !.touched = @ \cup {p}]
    /\ UNCHANGED <<fs, ledger, lastrowid, clock, session, run, results, agent, ret, origin>>

remove_file(p) ==
    /\ probe.disk[p] # Absent
    /\ probe' = [probe EXCEPT !.disk[p] = Absent, !.touched = @ \cup {p}]
    /\ UNCHANGED <<fs, ledger, lastrowid, clock, session, run, results, agent, ret, origin>>

NextWatcher ==
    \/ \E root \in Roots : add_watch(root)
    \/ \E root \in Roots : check_changes(root)
    \/ get_event
    \/ \E p \in FilePaths, mtime \in 1..MaxMtime : write_file(p, mtime)
    \/ \E p \in FilePaths : remove_file(p)

SpecWatcher == InitWatcher /\ [][NextWatcher]_vars

\* ------------------------------------------------- retention cleanup
\* UndoManager.cleanup_old_records.  A record's timestamp is the time of its
\* insertion, so the records older than the cutoff are those with id <= cut.
\* The first DELETE removes the old Undone and Failed records, the second every
\* record that is not among the max_history highest ids.
cleanup_old_records(L, cut, max_history) ==
    LET Recent(r) == ~(r.id <= cut /\ r.status \in {UNDONE, FAILED})
        kept == SelectSeq(L, Recent)
        n == Len(kept)
    IN  IF n <= max_history THEN kept ELSE SubSeq(kept, n - max_history + 1, n)

Cleanup ==
    /\ Direct
    /\ \E cut \in 0..lastrowid :
            ledger' = cleanup_old_records(ledger, cut, MaxHistory)
    /\ UNCHANGED <<fs, lastrowid, clock, session, run, results, agent, ret, origin, probe>>

\* A caller that records actions and settles them in the documented order
\* (record_action, then mark_executed or mark_failed, later mark_undone).
CleanupRecord ==
    /\ lastrowid < MaxCleanup
    /\ api_record_action(MOVE, 1, NPaths, NoBatch, NoFile)

StatusOf(L, id) ==
    IF \E i \in 1..Len(L) : L[i].id = id
    THEN (CHOOSE r \in {L[i] : i \in 1..Len(L)} : r.id = id).status
    ELSE "absent"

CleanupSettle ==
    \E id \in 1..MaxCleanup :
        \/ StatusOf(ledger, id) = PENDING /\ api_mark_executed(id)
        \/ StatusOf(ledger, id) = PENDING /\ api_mark_failed(id)
        \/ StatusOf(ledger, id) = EXECUTED /\ api_mark_undone(id)

NextCleanup ==
    \/ CleanupRecord
    \/ CleanupSettle
    \/ Cleanup

SpecCleanup == InitApi /\ [][NextCleanup]_vars

\* ------------------------------------------ conflict resolvers on names
\* The three loops that look for a free name, on the listing of one directory.
\* A file name is the number of date prefixes in front of its base name, the
\* base name, and the counters appended to its stem, in order.
FileName(date, base, counters) == [date |-> date, base |-> base, counters |-> counters]

\* f"{stem}{separator}{counter}{suffix}"
WithCounter(name, counter) == [name EXCEPT !.counters = Append(@, counter)]

\* f"{date_prefix}_{original_name}{extension}"
WithDatePrefix(name) == [name EXCEPT !.date = @ + 1]

\* re.match(r'^\d{4}-\d{2}-\d{2}', original_name)
HasDatePrefix(name) == name.date > 0

Found(path) == [raised |-> FALSE, path |-> path]

Raised(path) == [raised |-> TRUE, path |-> path]

\* Faulty variant: the last free counter instead of the first.
FirstFree_last(listing, path, last) ==
    LET free == {k \in 1..last : WithCounter(path, k) \notin listing}
    IN  IF free = {} THEN 0 ELSE CHOOSE k \in free : \A j \in free : k >= j

\* The counter a loop "counter = 1; while candidate exists: counter += 1" stops
\* at when it may go up to last: the first one, in the order 1, 2, 3, ...,
\* whose candidate is not in the listing; 0 when there is none.
FirstFree(listing, path, last) ==
    LET free == {k \in 1..last : WithCounter(path, k) \notin listing}
    IN  IF free = {} THEN 0 ELSE CHOOSE k \in free : \A j \in free : k <= j

\* The while loop of OrganizerAgent._handle_duplicate: the candidates with the
\* counters 1..999 are tried, then "Too many duplicates" is raised.
DuplicateLoop(listing, path) ==
    LET k == FirstFree(listing, path, DupCap)
    IN  IF k = 0 THEN Raised(path) ELSE Found(WithCounter(path, k))

handle_duplicate_listing(listing, path) ==
    IF path \notin listing THEN Found(path) ELSE DuplicateLoop(listing, path)

\* FileOps.get_unique_path: the same loop without a cap.  It stops at the
\* latest after as many candidates as the directory has names, plus one.
UniqueLoop(listing, path) ==
    Found(WithCounter(path, FirstFree(listing, path, Cardinality(listing) + 1)))

get_unique_path(listing, path) ==
    IF path \notin listing THEN Found(path) ELSE UniqueLoop(listing, path)

\* The name Orchestrator._determine_new_location asks for first: the source
\* name, with today's date in front unless it starts with a date.
NewName(source) == IF HasDatePrefix(source) THEN source ELSE WithDatePrefix(source)

\* Its loop, without a cap: every candidate is date prefix + original stem +
\* counter, whether or not the original stem starts with a date.
LocationLoop(listing, source) ==
    Found(WithCounter(WithDatePrefix(source),
                      FirstFree(listing, WithDatePrefix(source), Cardinality(listing) + 1)))

determine_new_location(listing, source) ==
    IF NewName(source) \notin listing
    THEN Found(NewName(source))
    ELSE LocationLoop(listing, source)

Resolvers == {"_handle_duplicate", "get_unique_path", "_determine_new_location"}

Resolver(fn, listing, arg) ==
    CASE fn = "_handle_duplicate" -> handle_duplicate_listing(listing, arg)
      [] fn = "get_unique_path" -> get_unique_path(listing, arg)
      [] fn = "_determine_new_location" -> determine_new_location(listing, arg)

\* The name a resolver is asked for.
Desired(fn, arg) == IF fn = "_determine_new_location" THEN NewName(arg) ELSE arg

\* A directory that holds the name and its duplicates with the counters below
\* n, but for one of them.
Listing(path, n, hole) ==
    {IF k = 0 THEN path ELSE WithCounter(path, k) : k \in {j \in 0..(n - 1) : j # hole}}

Undated == FileName(0, "report", <<>>)

Dated == FileName(1, "report", <<>>)

NoCall == [fn |-> "none", arg |-> Dated, path |-> Dated]

Fills == (0..MaxFill) \cup {DupCap, DupCap + 1}

InitResolver ==
    /\ fs = InitFs /\ ledger = <<>> /\ lastrowid = 0 /\ clock = 1
    /\ session = OrganizeSession(<<>>)
    /\ run = IdleRun /\ results = NoResults /\ agent = IdleAgent
    /\ ret = NoReturn /\ origin = [p \in Paths |-> 0]
    /\ \E n \in Fills, hole \in (1..MaxFill) \cup {DupCap + 1} :
            probe = [fn |-> "none", listing |-> Listing(Dated, n, hole),
                     arg |-> Dated, result |-> Found(Dated), made |-> 0, fresh |-> FALSE,
                     prev |-> NoCall]

\* A call of a resolver on the listing as it is.  probe.prev keeps the call
\* whose result was materialised last.
Resolve(fn, arg) ==
    /\ probe' = [probe EXCEPT !.fn = fn, !.arg = arg,
                              !.result = Resolver(fn, probe.listing, arg),
                              !.fresh = FALSE]
    /\ UNCHANGED <<fs, ledger, lastrowid, clock, session, run, results, agent, ret, origin>>

\* The caller creates a file at the path the last call returned.
Materialize ==
    /\ probe.fn # "none" /\ ~probe.result.raised /\ ~probe.fresh
    /\ probe.made < MaxMade
    /\ probe' = [probe EXCEPT !.listing = @ \cup {probe.result.path},
                              !.made = @ + 1, !.fresh = TRUE,
                              !.prev = [fn |-> probe.fn, arg |-> probe.arg,
                                        path |-> probe.result.path]]
    /\ UNCHANGED <<fs, ledger, lastrowid, clock, session, run, results, agent, ret, origin>>

NextResolver ==
    \/ \E fn \in Resolvers, arg \in {Undated, Dated} : Resolve(fn, arg)
    \/ Materialize

SpecResolver == InitResolver /\ [][NextResolver]_vars

\* ------------------------------------------------- created directories
\* A caller of the UndoManager that records the creation of one directory the
\* way the class docstring shows (record_action, the operation, mark_executed)
\* while files come and go in that directory.  The directory is outside the
\* universe of file paths.
DirPath == NPaths + 1

Entries == 1..MaxEntries

NoDir == [fn |-> "dir", present |-> FALSE, listing |-> {}]

\* Faulty variant: shutil.rmtree in place of rmdir.
perform_undo_dir_rmtree(a, d) ==
    IF d.present THEN [ok |-> TRUE, dir |-> NoDir] ELSE [ok |-> TRUE, dir |-> d]

\* The CREATE_DIR branch of UndoManager._perform_undo: [ok, dir].  rmdir raises
\* OSError on a directory that is not empty; a directory that is not there
\* falls through to "return True".
perform_undo_dir(a, d) ==
    IF d.present
    THEN IF d.listing = {}
         THEN [ok |-> TRUE, dir |-> NoDir]
         ELSE [ok |-> FALSE, dir |-> d]
    ELSE [ok |-> TRUE, dir |-> d]

\* record_action(ActionType.CREATE_DIR, dir_path)
RecordCreateDir ==
    /\ Len(ledger) < MaxDirRecords
    /\ api_record_action(CREATE_DIR, DirPath, 0, NoBatch, NoFile)

\* dir_path.mkdir(parents=True, exist_ok=True), then mark_executed.
MakeDir ==
    /\ Direct
    /\ \E i \in 1..Len(ledger) :
        /\ ledger[i].status = PENDING
        /\ ledger' = mark_executed(ledger, ledger[i].id)
    /\ probe' = [probe EXCEPT !.present = TRUE]
    /\ UNCHANGED <<fs, lastrowid, clock, session, run, results, agent, ret, origin>>

\* Someone creates a file in the directory.
PutEntry ==
    /\ probe.present
    /\ \E e \in Entries \ probe.listing : probe' = [probe EXCEPT !.listing = @ \cup {e}]
    /\ UNCHANGED <<fs, ledger, lastrowid, clock, session, run, results, agent, ret, origin>>

\* Someone removes a file from the directory.
TakeEntry ==
    /\ \E e \in probe.listing : probe' = [probe EXCEPT !.listing = @ \ {e}]
    /\ UNCHANGED <<fs, ledger, lastrowid, clock, session, run, results, agent, ret, origin>>

\* undo_last_action on a ledger of CREATE_DIR records.
UndoLastDir ==
    /\ Direct
    /\ LET rows == ExecutedDesc(ledger)
       IN  IF rows = <<>>
           THEN ret' = <<>> /\ UNCHANGED <<ledger, probe>>
           ELSE LET a == Head(rows)
                    r == perform_undo_dir(a, probe)
                IN  /\ probe' = r.dir
                    /\ ledger' = IF r.ok THEN mark_undone(ledger, a.id) ELSE ledger
                    /\ ret' = <<[id |-> a.id, status |-> IF r.ok THEN UNDONE ELSE a.status]>>
    /\ UNCHANGED <<fs, lastrowid, clock, session, run, results, agent, origin>>

InitDir ==
    /\ fs = InitFs /\ ledger = <<>> /\ lastrowid = 0 /\ clock = 1
    /\ session = OrganizeSession(<<>>)
    /\ run = IdleRun /\ results = NoResults /\ agent = IdleAgent
    /\ ret = NoReturn /\ origin = [p \in Paths |-> 0]
    /\ probe = NoDir

NextDir ==
    \/ RecordCreateDir
    \/ MakeDir
    \/ PutEntry
    \/ TakeEntry
    \/ UndoLastDir

SpecDir == InitDir /\ [][NextDir]_vars

\* --------------------------------------- a destination that is a directory
\* Orchestrator.execute on sessions (scan_and_analyze with an absolute
\* suggested_path, or load_session) whose MOVE changes may name DirPath as the
\* destination, where a directory may be by the time the batch runs.
IntoPool ==
    {ProposedChange(MOVE, s, d) : s \in Entries, d \in {NPaths, DirPath}}

IntoSessions == UNION {[1..n -> IntoPool] : n \in 1..MaxEntries}

\* What is at DirPath: a directory with the entries named after the files
\* moved into it, or a plain file, or nothing.
AtDirPath(present, listing, file) ==
    [fn |-> "into", present |-> present, listing |-> listing, file |-> file]

InitInto ==
    /\ fs = InitFs /\ ledger = <<>> /\ lastrowid = 0 /\ clock = 1
    /\ session \in {OrganizeSession(c) : c \in IntoSessions}
    /\ run = IdleRun /\ results = NoResults /\ agent = IdleAgent
    /\ ret = NoReturn /\ origin = [p \in Paths |-> 0]
    /\ probe \in {AtDirPath(FALSE, {}, NoFile)}
                  \cup {AtDirPath(TRUE, l, NoFile) : l \in SUBSET Entries}

\* shutil.move(src, dst) of _execute_change with dst = DirPath.  When dst is an
\* existing directory the file goes to dst/basename(src), and shutil.Error is
\* raised if that name is taken; otherwise the file is renamed to dst.
execute_change_move_into ==
    /\ run.phase = "mutate"
    /\ CurrentChange.destination_path = DirPath
    /\ LET src == CurrentChange.source_path
       IN  IF ~Exists(fs, src)
           THEN /\ run' = [run EXCEPT !.phase = "except", !.exc = "FileNotFoundError"]
                /\ UNCHANGED <<fs, origin, probe>>
           ELSE IF probe.present /\ src \in probe.listing
           THEN /\ run' = [run EXCEPT !.phase = "except", !.exc = "Error"]
                /\ UNCHANGED <<fs, origin, probe>>
           ELSE /\ probe' = IF probe.present
                            THEN [probe EXCEPT !.listing = @ \cup {src}]
                            ELSE [probe EXCEPT !.file = fs[src]]
                /\ fs' = [fs EXCEPT ![src] = NoFile]
                /\ origin' = [origin EXCEPT ![src] = 0]
                /\ run' = [run EXCEPT !.phase = "mark"]
    /\ UNCHANGED <<ledger, lastrowid, clock, session, results, agent, ret>>

\* The same call with a destination among the file paths.
execute_change_move_to_path ==
    /\ run.phase = "mutate"
    /\ CurrentChange.destination_path \in Paths
    /\ execute_change_mutate(FALSE)

NextInto ==
    \/ approve_all
    \/ execute(FALSE)
    \/ execute_change_record
    \/ execute_change_move_to_path
    \/ execute_change_move_into
    \/ execute_change_success
    \/ execute_change_except
    \/ execute_return

SpecInto == InitInto /\ [][NextInto]_vars

\* ------------------------------------------------- proposal generation
\* Orchestrator.scan_and_analyze on a root whose files are known by folder and
\* name: the root itself, the category folders under it and the folder an
\* absolute suggested_path of the Classifier points to.  The session is the
\* list of changes; execute is taken as a whole, without the ledger.
File(folder, name) == [folder |-> folder, name |-> name]

ListingOf(tree, folder) == {f.name : f \in {g \in tree : g.folder = folder}}

Change(action, source, destination, confidence, category) ==
    [action |-> action, source |-> source, destination |-> destination,
     confidence |-> confidence, category |-> category,
     approved |-> FALSE, executed |-> FALSE]

\* The category folders under the root.
Categories == {"cat", "misc"}

\* PerceptionResult: the category, an absolute suggested_path or none, and the
\* confidence.
Perceptions ==
    [suggested_category : Categories, suggested_path : BOOLEAN, confidence : {0, 1}]

\* Faulty variant: no file counts as organized.
is_already_organized_never(file) == FALSE

\* Orchestrator._is_already_organized
is_already_organized(file) == HasDatePrefix(file.name)

\* Orchestrator._determine_new_location with its last step: the name comes from
\* the category folder, the folder from an absolute suggested_path if given.
determine_new_path(tree, file, perception) ==
    File(IF perception.suggested_path THEN "llm" ELSE perception.suggested_category,
         determine_new_location(ListingOf(tree, perception.suggested_category),
                                file.name).path)

\* Orchestrator._generate_proposal; the action "none" stands for None.
generate_proposal(tree, file, perception) ==
    IF is_already_organized(file)
    THEN Change(SKIP, file, file, 1, "none")
    ELSE LET new_path == determine_new_path(tree, file, perception)
         IN  IF new_path = file
             THEN Change("none", file, file, 0, "none")
             ELSE Change(MOVE, file, new_path, perception.confidence,
                         perception.suggested_category)

\* list(self.map_maker.iter_files()): the files in the order of the scan.
RECURSIVE SeqOf(_)
SeqOf(S) ==
    IF S = {} THEN <<>>
    ELSE LET x == CHOOSE y \in S : TRUE IN <<x>> \o SeqOf(S \ {x})

UndatedFiles(tree) == {f \in tree : ~is_already_organized(f)}

DefaultPerception ==
    [suggested_category |-> "misc", suggested_path |-> FALSE, confidence |-> 1]

\* The proposal of every file, the perceptions of the undated ones given.
Proposals(tree, perc) ==
    LET files == SeqOf(tree)
    IN  [i \in 1..Len(files) |->
            generate_proposal(tree, files[i],
                IF files[i] \in DOMAIN perc THEN perc[files[i]] ELSE DefaultPerception)]

NoScan(tree) ==
    [fn |-> "scan", tree |-> tree, changes |-> <<>>, placed |-> {},
     by |-> "none", fresh |-> FALSE, scans |-> 0, runs |-> 0]

\* "if change and change.action != OrganizeAction.SKIP: session.changes.append"
Kept(proposals) ==
    LET IsChange(c) == c.action \notin {"none", SKIP} IN SelectSeq(proposals, IsChange)

scan_and_analyze ==
    /\ probe.scans < MaxScans
    /\ \E perc \in [UndatedFiles(probe.tree) -> Perceptions] :
            probe' = [probe EXCEPT !.changes = Kept(Proposals(probe.tree, perc)),
                                   !.by = "scan", !.fresh = TRUE, !.scans = @ + 1]
    /\ UNCHANGED <<fs, ledger, lastrowid, clock, session, run, results, agent, ret, origin>>

\* Orchestrator.load_session of a saved plan that lists every file, the ones
\* to skip included.
load_session ==
    /\ probe.scans < MaxScans
    /\ \E perc \in [UndatedFiles(probe.tree) -> Perceptions] :
            LET IsChange(c) == c.action # "none"
            IN  probe' = [probe EXCEPT
                            !.changes = SelectSeq(Proposals(probe.tree, perc), IsChange),
                            !.by = "load", !.fresh = TRUE, !.scans = @ + 1]
    /\ UNCHANGED <<fs, ledger, lastrowid, clock, session, run, results, agent, ret, origin>>

\* The loop shared by approve_all, approve_by_confidence and
\* approve_by_category: a change that is not a Skip and is selected (by its
\* position in the list) is approved.
Approve(changes, selected) ==
    [i \in 1..Len(changes) |->
        IF i \in selected /\ changes[i].action # SKIP
        THEN [changes[i] EXCEPT !.approved = TRUE]
        ELSE changes[i]]

approve_all_changes ==
    /\ probe.by # "none"
    /\ probe' = [probe EXCEPT !.changes = Approve(@, 1..Len(@))]
    /\ UNCHANGED <<fs, ledger, lastrowid, clock, session, run, results, agent, ret, origin>>

approve_by_confidence ==
    /\ probe.by # "none"
    /\ \E min_confidence \in {0, 1} :
        probe' = [probe EXCEPT !.changes =
                    Approve(@, {i \in 1..Len(@) : @[i].confidence >= min_confidence})]
    /\ UNCHANGED <<fs, ledger, lastrowid, clock, session, run, results, agent, ret, origin>>

approve_by_category ==
    /\ probe.by # "none"
    /\ \E category \in Categories :
        probe' = [probe EXCEPT !.changes =
                    Approve(@, {i \in 1..Len(@) : @[i].category = category})]
    /\ UNCHANGED <<fs, ledger, lastrowid, clock, session, run, results, agent, ret, origin>>

\* The loop of Orchestrator.execute over the approved changes, from the i-th
\* on: a MOVE whose source is there is carried out, anything else fails.
RECURSIVE ExecuteChanges(_, _, _, _)
ExecuteChanges(changes, i, tree, placed) ==
    IF i > Len(changes)
    THEN [changes |-> changes, tree |-> tree, placed |-> placed]
    ELSE LET c == changes[i]
         IN  IF c.approved /\ c.action = MOVE /\ c.source \in tree
             THEN ExecuteChanges([changes EXCEPT ![i].executed = TRUE], i + 1,
                                 (tree \ {c.source}) \cup {c.destination},
                                 (placed \ {c.source}) \cup {c.destination})
             ELSE ExecuteChanges(changes, i + 1, tree, placed)

execute_changes ==
    /\ probe.runs < MaxRuns
    /\ \E i \in 1..Len(probe.changes) : probe.changes[i].approved
    /\ LET r == ExecuteChanges(probe.changes, 1, probe.tree, probe.placed)
       IN  probe' = [probe EXCEPT !.changes = r.changes, !.tree = r.tree,
                                  !.placed = r.placed, !.fresh = FALSE, !.runs = @ + 1]
    /\ UNCHANGED <<fs, ledger, lastrowid, clock, session, run, results, agent, ret, origin>>

\* The names a root may hold at the start.
Notes == FileName(0, "notes", <<>>)

Trees ==
    {r \cup c \cup l :
        r \in SUBSET {File("root", Undated), File("root", Notes), File("root", Dated)},
        c \in SUBSET {File("cat", Dated)},
        l \in SUBSET {File("llm", Dated)}}

InitProposal ==
    /\ fs = InitFs /\ ledger = <<>> /\ lastrowid = 0 /\ clock = 1
    /\ session = OrganizeSession(<<>>)
    /\ run = IdleRun /\ results = NoResults /\ agent = IdleAgent
    /\ ret = NoReturn /\ origin = [p \in Paths |-> 0]
    /\ probe \in {NoScan(t) : t \in Trees}

NextProposal ==
    \/ scan_and_analyze
    \/ load_session
    \/ approve_all_changes
    \/ approve_by_confidence
    \/ approve_by_category
    \/ execute_changes

SpecProposal == InitProposal /\ [][NextProposal]_vars

\* ============================================================ properties
HasRecord(L, src, dst, statuses) ==
    \E i \in 1..Len(L) :
        /\ L[i].source_path = src
        /\ L[i].destination_path = dst
        /\ L[i].status \in statuses

ExecuteFinishes == run.phase = "item" /\ run'.phase = "idle" /\ session'.live

\* The first batch of a session of three approved MOVE changes is over; item 1
\* was executed, onto a path that was free, and the move of item 2 raised.
C2_Case ==
    /\ Len(session.changes) = 3 /\ run.queue = <<1, 2, 3>>
    /\ ~Exists(InitFs, session.changes[1].destination_path)
    /\ \A i \in 1..3 : session.changes[i].action = MOVE
    /\ run.batch_id = 1
    /\ session.changes[1].executed
    /\ session.changes[2].error # NoError

\* C2 (batch rollback): when execute finishes a batch of three approved MOVE
\* changes in which the move of item 2 failed after item 1 succeeded, item 1's
\* file is back at its source and its record is Undone, item 2's record is
\* Failed, and item 3 was never attempted: it has no record and its file has
\* not moved.
C2_BatchRollback ==
    [][(ExecuteFinishes /\ C2_Case) =>
            /\ Len(ledger') = 2
            /\ ledger'[1].status = UNDONE
            /\ ledger'[2].status = FAILED
            /\ fs'[session.changes[1].source_path] = InitFs[session.changes[1].source_path]
            /\ ~session'.changes[3].executed
            /\ fs'[session.changes[3].source_path] = InitFs[session.changes[3].source_path]]_vars

\* C3 (Undone only when reversed): a call of undo_last_action or undo_batch
\* sets a record's status to Undone only if _perform_undo physically reversed
\* the mutation in that call, so a call that leaves the filesystem as it was
\* leaves every Executed record Executed.
C3_UndoneOnlyIfReversed ==
    [][((UndoLast \/ UndoBatch) /\ fs' = fs) =>
            \A i \in 1..Len(ledger) :
                ledger[i].status = EXECUTED => ledger'[i].status = EXECUTED]_vars

StrictlyDescending(undone) ==
    \A i, j \in 1..Len(undone) : i < j => undone[i].id > undone[j].id

\* Two Executed MOVE records of batch b that form a chain x -> y -> z, with the
\* file at z and nothing at y.
IsChain(L, f, b, i, j) ==
    /\ i < j
    /\ L[i].batch_id = b /\ L[j].batch_id = b
    /\ L[i].action_type = MOVE /\ L[j].action_type = MOVE
    /\ L[i].status = EXECUTED /\ L[j].status = EXECUTED
    /\ L[i].destination_path = L[j].source_path
    /\ L[j].destination_path # L[i].source_path
    /\ Exists(f, L[j].destination_path) /\ ~Exists(f, L[j].source_path)
    /\ \A k \in 1..Len(L) :
            (k \notin {i, j} /\ L[k].batch_id = b) => L[k].status # EXECUTED

\* C4 (strict reverse order): undo_batch handles the Executed records of the
\* batch last-inserted-first.  The list it returns is in strictly descending id
\* order, and of two records that form a chain the later one is reversed
\* first, so the file travels all the way back and both end Undone.
C4_ReverseOrder ==
    [][\A b \in 1..MaxBatches :
            UndoBatchOf(b) =>
                /\ StrictlyDescending(ret')
                /\ \A i, j \in 1..Len(ledger) :
                        IsChain(ledger, fs, b, i, j) =>
                            /\ fs'[ledger[i].source_path] = fs[ledger[j].destination_path]
                            /\ ledger'[i].status = UNDONE
                            /\ ledger'[j].status = UNDONE
                            /\ ret' = <<[id |-> ledger[j].id, status |-> UNDONE],
                                        [id |-> ledger[i].id, status |-> UNDONE]>>]_vars

\* A batch undo has just unwound a chain of two moves.
C4_Witness ==
    /\ Len(ret) = 2
    /\ \E i, j \in 1..Len(ledger) :
        /\ i < j
        /\ ret = <<[id |-> ledger[j].id, status |-> UNDONE],
                   [id |-> ledger[i].id, status |-> UNDONE]>>
        /\ ledger[i].batch_id = ledger[j].batch_id /\ ledger[i].batch_id # NoBatch
        /\ ledger[i].status = UNDONE /\ ledger[j].status = UNDONE
        /\ ledger[i].destination_path = ledger[j].source_path
        /\ Exists(fs, ledger[i].source_path)
        /\ ~Exists(fs, ledger[j].destination_path)

\* The ledger holds the records of the session's batch and nothing else, all of
\* them MOVE and none undone yet: the batch ran on the directory as constructed.
\* Every destination proposed was free when the session was made.
C5_Case ==
    /\ session.batch_id # NoBatch
    /\ ledger # <<>>
    /\ \A i \in 1..Len(ledger) :
        /\ ledger[i].batch_id = session.batch_id
        /\ ledger[i].action_type = MOVE
        /\ ledger[i].status \in {EXECUTED, FAILED}
    /\ \A i \in 1..Len(session.changes) :
        /\ session.changes[i].action = MOVE
        /\ ~Exists(InitFs, session.changes[i].destination_path)

\* C5 (batch undo round trip): for every sequence of MOVE changes executed as
\* one batch, dependent moves and several sources with one destination
\* included, undo_session puts every file back at its source with its content
\* and every record of the batch that was Executed ends Undone.
C5_BatchRoundTrip ==
    [][(undo_session /\ C5_Case) =>
            /\ fs' = InitFs
            /\ \A i \in 1..Len(ledger) :
                    ledger[i].status = EXECUTED => ledger'[i].status = UNDONE]_vars

\* The transitions a record's status may make.
LegalTransition(old, new) ==
    \/ old = PENDING /\ new \in {EXECUTED, FAILED}
    \/ old = EXECUTED /\ new = UNDONE

\* Across a step no record is removed, a new record is Pending and the status
\* of a record is unchanged or makes a legal transition.
LegalStep ==
    /\ Len(ledger') >= Len(ledger)
    /\ \A i \in 1..Len(ledger') :
        IF i <= Len(ledger)
        THEN \/ ledger'[i].status = ledger[i].status
             \/ LegalTransition(ledger[i].status, ledger'[i].status)
        ELSE ledger'[i].status = PENDING

\* C6 (status histories): through Orchestrator.execute, the agent's
\* execute_task, undo_last_action, undo_n_actions and undo_batch the status
\* history of every record is a prefix of Pending -> Executed -> Undone or of
\* Pending -> Failed.
C6_LegalHistories == [][LegalStep]_vars

\* One record has been executed and undone and another has failed.
C6_Witness ==
    \E i, j \in 1..Len(ledger) :
        ledger[i].status = UNDONE /\ ledger[j].status = FAILED

\* A caller's mark_executed, mark_failed or mark_undone.
ApiMark ==
    \E id \in 1..MaxDirect :
        api_mark_executed(id) \/ api_mark_failed(id) \/ api_mark_undone(id)

\* C7 (the store enforces the rule): a mark_executed, mark_failed or
\* mark_undone that asks for a transition other than Pending -> Executed,
\* Pending -> Failed or Executed -> Undone fails and leaves the status as it
\* was, so every step of these calls is a legal step.
C7_StoreEnforcesTransitions == [][ApiMark => LegalStep]_vars

RecordOf(L, id) == CHOOSE r \in {L[i] : i \in 1..Len(L)} : r.id = id

\* The steps on which the processing of an item returns: execute_task to its
\* caller, the per-item step of execute to the loop.
TaskReturns ==
    /\ agent.phase \in {"mutate", "mark"} /\ agent'.phase = "idle"
    /\ session'.live

ItemReturns ==
    /\ run.phase \in {"mark", "except"} /\ run'.phase = "item"

\* C8 (no record left Pending): once an item's processing has returned its
\* record is Executed if the mutation succeeded and Failed with a non-empty
\* error_message if it failed.
C8_RecordSettled ==
    [][/\ TaskReturns =>
            LET r == RecordOf(ledger', agent.current)
            IN  IF agent'.executed
                THEN r.status = EXECUTED
                ELSE r.status = FAILED /\ r.error_message # NoError
       /\ ItemReturns =>
            LET r == RecordOf(ledger', run.current)
            IN  IF run.phase = "mark"
                THEN r.status = EXECUTED
                ELSE r.status = FAILED /\ r.error_message # NoError]_vars

\* The session's first batch, every destination of which was free when the
\* session was made.
C9_Case ==
    /\ run.batch_id = 1
    /\ \A i \in 1..Len(session.changes) :
            ~Exists(InitFs, session.changes[i].destination_path)

\* C9 (conflicts resolved at execution time): the move or copy of an item of
\* execute never targets a path that exists at that moment, so no file is
\* overwritten and the executed changes of a batch end at distinct paths.
C9_NoOverwrite ==
    [][(run.phase = "mutate" /\ run'.phase = "mark" /\ C9_Case) =>
            /\ ~Exists(fs, CurrentChange.destination_path)
            /\ \A i \in 1..Len(ledger) :
                    (ledger[i].batch_id = run.batch_id /\ ledger[i].status = EXECUTED)
                        => ledger[i].destination_path
                                # RecordOf(ledger, run.current).destination_path]_vars

\* The record undo_last_action takes is a DELETE whose metadata has no
\* backup_path or whose backup file is gone.
C10_Case ==
    /\ ExecutedDesc(ledger) # <<>>
    /\ LET a == Head(ExecutedDesc(ledger))
       IN  /\ a.action_type = DELETE
           /\ a.backup_path = NoFile \/ ~Exists(fs, a.backup_path)

\* C10 (DELETE without a backup cannot be undone): the undo of such a record
\* fails: the record stays Executed, the filesystem is unchanged and the call
\* does not report an undone action.
C10_DeleteUndoFails ==
    [][(UndoLast /\ C10_Case) =>
            /\ ledger' = ledger
            /\ fs' = fs
            /\ \A k \in 1..Len(ret') : ret'[k].status # UNDONE]_vars

\* The record undo_last_action takes is a MOVE or a RENAME.
C11_Case ==
    /\ ExecutedDesc(ledger) # <<>>
    /\ Head(ExecutedDesc(ledger)).action_type \in {MOVE, RENAME}

\* C11 (undo of MOVE and RENAME): the undo moves the file from
\* destination_path back to source_path; when no file is at destination_path
\* the undo fails, the filesystem is unchanged and the record stays Executed,
\* for RENAME exactly as for MOVE.
C11_MoveRenameUndo ==
    [][(UndoLast /\ C11_Case) =>
            LET a == Head(ExecutedDesc(ledger))
            IN  IF Exists(fs, a.destination_path)
                THEN /\ fs' = shutil_move(fs, a.destination_path, a.source_path)
                     /\ ledger' = mark_undone(ledger, a.id)
                ELSE /\ fs' = fs
                     /\ ledger' = ledger]_vars

Records(L) == {L[i] : i \in 1..Len(L)}

\* C12 (cleanup removes only terminal records): every record that is Pending
\* or Executed before cleanup_old_records is still there after it, under the
\* age ceiling and under the count ceiling; a removed record is older than
\* every Undone or Failed record that is kept.
C12_CleanupKeepsLive ==
    [][Cleanup =>
            /\ \A r \in Records(ledger) :
                    r.status \in {PENDING, EXECUTED} => r \in Records(ledger')
            /\ \A r \in Records(ledger) \ Records(ledger'), k \in Records(ledger') :
                    k.status \in {UNDONE, FAILED} => r.id < k.id]_vars

\* A dry run: Orchestrator.execute or OrganizerAgent.execute_task with
\* dry_run = True.
DryRun ==
    \/ execute(TRUE)
    \/ \E action \in TaskActions, source \in Paths, destination \in Paths :
            execute_task(action, source, destination, TRUE)

\* C13 (dry run changes nothing durable): a dry run appends no ledger record,
\* moves or copies no file, mints no batch_id for the session, starts no batch
\* and leaves every change's executed flag as it was.
C13_DryRunFrame ==
    [][DryRun =>
            /\ ledger' = ledger /\ lastrowid' = lastrowid
            /\ fs' = fs
            /\ clock' = clock
            /\ session'.batch_id = session.batch_id
            /\ run'.phase = "idle" /\ agent'.phase = "idle"
            /\ Len(session'.changes) = Len(session.changes)
            /\ \A i \in 1..Len(session.changes) :
                    session'.changes[i].executed = session.changes[i].executed]_vars

\* A dry run over at least one approved change has just reported.
C13_Witness ==
    /\ results.dry_run /\ results.executed >= 1
    /\ \E i \in 1..Len(session.changes) : session.changes[i].approved
    /\ run.phase = "idle"

\* C14 (cancellation is not rollback): when a running batch is stopped
\* between two items by an exception from outside the items (KeyboardInterrupt,
\* a progress callback that aborts), the records already Executed stay
\* Executed and their files stay where they are: no undo_batch runs.
C14_CancelKeepsExecuted ==
    [][execute_raise => (ledger' = ledger /\ fs' = fs)]_vars

\* The step that handles a record_action that failed on an unreachable store,
\* after an earlier item of the batch was executed.
C15_Case ==
    /\ run.phase = "except" /\ run.exc = "OperationalError"
    /\ \E i \in 1..Len(ledger) :
            ledger[i].batch_id = run.batch_id /\ ledger[i].status = EXECUTED

\* C15 (a ledger failure aborts the batch): when record_action fails because
\* the store is unreachable, execute stops (no further item is attempted and
\* the error goes to the caller) and the items of the batch already Executed
\* are rolled back.
C15_LedgerFailureAborts ==
    [][C15_Case =>
            LET u == undo_batch(ledger, fs, run.batch_id)
            IN  /\ run'.phase = "idle"
                /\ ledger' = u.ledger
                /\ fs' = u.fs]_vars

\* C16 (only approved items are executed): execute starts a batch over the
\* approved changes only; a ledger record is appended, a file is moved and an
\* executed flag is set only for a change that is approved at that moment; an
\* execute_batch item that is not approved appends no record and moves no file.
C16_OnlyApproved ==
    [][/\ (run.phase = "idle" /\ run'.phase = "item") =>
            \A i \in 1..Len(session.changes) :
                (\E k \in 1..Len(run'.queue) : run'.queue[k] = i)
                    <=> session.changes[i].approved
       /\ (run.phase # "idle" /\ (ledger' # ledger \/ fs' # fs)) =>
            CurrentChange.approved
       /\ \A i \in 1..Len(session.changes) :
            (~session.changes[i].executed /\ session'.changes[i].executed)
                => session.changes[i].approved
       /\ \A action \in TaskActions, source \in Paths, destination \in Paths :
            execute_batch_item(FALSE, action, source, destination, FALSE)
                => (ledger' = ledger /\ fs' = fs /\ agent'.phase = "idle")]_vars

\* A batch is over in which one change was executed and another, rejected
\* with reject_single after approve_all, was left alone.
C16_Witness ==
    /\ run.phase = "idle" /\ session.executed
    /\ \E i, j \in 1..Len(session.changes) :
        /\ session.changes[i].executed /\ session.changes[i].approved
        /\ ~session.changes[j].approved /\ ~session.changes[j].executed
        /\ Len(ledger) = 1
        /\ ledger[1].source_path = session.changes[i].source_path
        /\ fs[session.changes[j].source_path] = InitFs[session.changes[j].source_path]
        /\ Exists(fs, session.changes[j].source_path)

\* C17 (records carry the batch id): a record appended by an item of
\* Orchestrator.execute carries the batch_id of the running BatchContext, and
\* a record appended by an item of OrganizerAgent.execute_batch carries the
\* batch_id of its BatchContext, so it is not without a batch_id.
C17_RecordsCarryBatchId ==
    [][/\ (run.phase = "item" /\ run'.phase = "mutate") =>
            /\ run.batch_id # NoBatch
            /\ RecordOf(ledger', run'.current).batch_id = run.batch_id
       /\ (agent.phase = "idle" /\ agent'.phase = "mutate") =>
            RecordOf(ledger', agent'.current).batch_id # NoBatch]_vars


\* ------------------------------------------------ conflict resolver contract
\* The last step was a call of a resolver and the listing is the one it saw.
Called == probe.fn # "none" /\ ~probe.fresh

\* path is the duplicate of name with the smallest counter k >= 1 whose
\* candidate is not in the listing.
IsFirstFreeCandidate(listing, name, path) ==
    \E k \in 1..(Cardinality(listing) + 1) :
        /\ path = WithCounter(name, k)
        /\ path \notin listing
        /\ \A j \in 1..(k - 1) : WithCounter(name, j) \in listing

AllTaken(listing, name) ==
    /\ name \in listing
    /\ \A k \in 1..DupCap : WithCounter(name, k) \in listing

\* C19 (capped resolution): each of the three conflict-resolution loops fails
\* with too many duplicates exactly when the desired path and every candidate
\* with a counter 1..999 exist, and returns a path whenever the desired path or
\* a candidate with a counter up to 999 is free.
C19_CappedResolution ==
    Called =>
        (probe.result.raised <=> AllTaken(probe.listing, Desired(probe.fn, probe.arg)))

\* The resolvers the repeated-call property is stated for.
Repeatable == {"_handle_duplicate", "get_unique_path"}

\* The counter at the end of a path a resolver returned for name, 0 for the
\* name itself.
CounterOf(name, path) == IF path = name THEN 0 ELSE path.counters[Len(path.counters)]

\* A call that repeats the previous call on an unchanged listing.
CalledAgain ==
    /\ probe.fn \in Repeatable /\ ~probe.fresh
    /\ probe'.fn = probe.fn /\ probe'.arg = probe.arg
    /\ probe'.listing = probe.listing

\* A call that repeats the call whose result has just been materialised.
CalledAfterMaterialize ==
    /\ probe.fn \in Repeatable /\ probe.fresh
    /\ probe'.fn = probe.fn /\ probe'.arg = probe.arg
    /\ ~probe'.fresh

C21_OneBatchId ==
    [][ session'.live =>
            /\ session.batch_id # NoBatch => session'.batch_id = session.batch_id
            /\ \A i \in 1..Len(ledger') :
                    ledger'[i].batch_id # NoBatch
                        => ledger'[i].batch_id = session'.batch_id
      ]_vars


\* ------------------------------------------------- the result of execute
\* The loop of a non-dry-run execute is over and the results are about to be
\* returned.
LoopOver == run.phase = "item" /\ run.k > Len(run.queue)

\* C22 (result accounting): when a non-dry-run execute returns, executed +
\* failed + skipped is the number of approved changes, executed is the number
\* of changes this call executed (each has its executed flag set and an
\* Executed record of this batch), and the errors list has exactly one entry
\* for each item counted as failed, a change of a non-executable type included.
C22_ResultAccounting ==
    LoopOver =>
        /\ results.executed + results.failed + results.skipped = Len(run.queue)
        /\ results.executed = Len(BatchRows(ledger, run.batch_id))
        /\ \A r \in {ledger[i] : i \in 1..Len(ledger)} :
                (r.batch_id = run.batch_id /\ r.status = EXECUTED)
                    => \E k \in 1..Len(run.queue) :
                          /\ session.changes[run.queue[k]].source_path = r.source_path
                          /\ session.changes[run.queue[k]].executed
        /\ Len(results.errors) = results.failed
        /\ \A k \in 1..Len(results.errors) :
                session.changes[results.errors[k]].error # NoError


\* ------------------------------------------------------ undo_last_action
\* The positions of the ledger that hold an Executed record.
ExecutedAt(L) == {i \in 1..Len(L) : L[i].status = EXECUTED}

\* The position of the Executed record with the greatest id.
LastExecutedAt(L) ==
    CHOOSE i \in ExecutedAt(L) : \A j \in ExecutedAt(L) : L[j].id <= L[i].id

\* The paths a record names.
PathsOf(r) == {r.source_path, r.destination_path, r.backup_path}

\* C23 (undo of the last action): undo_last_action works on the Executed record
\* with the greatest id of the whole ledger, whatever its batch: it returns
\* that record, changes the filesystem at no path the record does not name,
\* changes no other record, and changes the record only by marking it Undone,
\* which it does exactly when it reports success.  With no Executed record it
\* returns None and changes neither the ledger nor the filesystem.
C23_UndoLast ==
    [][ UndoLast =>
          IF ExecutedAt(ledger) = {}
          THEN ledger' = ledger /\ fs' = fs /\ ret' = <<>>
          ELSE LET m == LastExecutedAt(ledger)
               IN  /\ Len(ret') = 1 /\ ret'[1].id = ledger[m].id
                   /\ Len(ledger') = Len(ledger)
                   /\ \A i \in 1..Len(ledger) : i # m => ledger'[i] = ledger[i]
                   /\ \A p \in Paths : p \notin PathsOf(ledger[m]) => fs'[p] = fs[p]
                   /\ \/ ledger'[m] = [ledger[m] EXCEPT !.status = UNDONE]
                         /\ ret'[1].status = UNDONE
                      \/ ledger'[m] = ledger[m]
                         /\ ret'[1].status = EXECUTED /\ fs' = fs
                   /\ (ledger[m].action_type = MOVE /\ Exists(fs, ledger[m].destination_path))
                        => /\ ret'[1].status = UNDONE
                           /\ fs'[ledger[m].source_path] = fs[ledger[m].destination_path]
                           /\ fs'[ledger[m].destination_path] = NoFile
      ]_vars

\* undo_last_action has just undone the last record, which belongs to the
\* second batch, while an older record of the first batch is still Executed.
C23_Witness ==
    /\ Len(ret) = 1 /\ ret[1].status = UNDONE
    /\ \E i, j \in 1..Len(ledger) :
        /\ ledger[j].id = ret[1].id /\ ledger[j].status = UNDONE
        /\ ledger[i].id < ledger[j].id /\ ledger[i].status = EXECUTED
        /\ ledger[i].batch_id # ledger[j].batch_id
    /\ \A i \in 1..Len(ledger) : ledger[i].status # UNDONE \/ ledger[i].id = ret[1].id


\* -------------------------------------------------------- undo_n_actions
\* C24 (undo of the last n actions): undo_n_actions(n) returns at most n
\* records, no record twice, every one with status Undone, in descending id
\* order, and they are the most recent records that were Executed at the call;
\* a record whose undo failed is not in the list.
C24_UndoNReturnsUndone ==
    [][ \A n \in 1..MaxRecords :
          UndoNOf(n) =>
            /\ Len(ret') <= n
            /\ \A j, k \in 1..Len(ret') : j < k => ret'[j].id > ret'[k].id
            /\ \A k \in 1..Len(ret') :
                  /\ ret'[k].status = UNDONE
                  /\ \E i \in 1..Len(ledger) :
                        /\ ledger[i].id = ret'[k].id
                        /\ ledger[i].status = EXECUTED
                        /\ ledger'[i].status = UNDONE
      ]_vars


\* ------------------------------------------------------ move round trip
\* The record undo_last_action selects is a MOVE whose destination still holds
\* the file the move put there, and nothing is at its source.
C25_Case ==
    /\ ExecutedAt(ledger) # {}
    /\ LET a == ledger[LastExecutedAt(ledger)]
       IN  /\ a.action_type = MOVE
           /\ Exists(fs, a.destination_path)
           /\ origin[a.destination_path] = a.source_path
           /\ ~Exists(fs, a.source_path)

\* C25 (move round trip): for an Executed MOVE record whose destination still
\* holds the moved file while nothing is at the source, undo_last_action puts
\* the file with the same content back at the source, leaves no file at the
\* destination, touches no other path and marks the record Undone.
C25_MoveRoundTrip ==
    [][ (UndoLast /\ C25_Case) =>
          LET m == LastExecutedAt(ledger)
              a == ledger[m]
          IN  /\ fs' = [fs EXCEPT ![a.source_path] = fs[a.destination_path],
                                  ![a.destination_path] = NoFile]
              /\ ledger'[m].status = UNDONE
              /\ ret' = <<[id |-> a.id, status |-> UNDONE]>>
      ]_vars

\* A move of the file of path 1 has been undone by undo_last_action: the file
\* is at path 1 again with its content, the destination is empty and the record
\* is Undone.
C25_Witness ==
    /\ Len(ret) = 1 /\ ret[1].status = UNDONE
    /\ \E i \in 1..Len(ledger) :
        /\ ledger[i].id = ret[1].id /\ ledger[i].status = UNDONE
        /\ ledger[i].action_type = MOVE /\ ledger[i].source_path = 1
        /\ ledger[i].batch_id = NoBatch
        /\ fs[1] = InitFs[1]
        /\ fs[ledger[i].destination_path] = NoFile
    /\ Len(ledger) = 1


\* ---------------------------------------------------------- undo of a copy
\* C26 (undo of a copy): when undo_last_action works on an Executed COPY
\* record, afterwards no file is at destination_path, the file at source_path
\* and every other path are as before, the record is Undone and no other record
\* has changed.
C26_CopyUndo ==
    [][ (UndoLast /\ ExecutedAt(ledger) # {}
                  /\ ledger[LastExecutedAt(ledger)].action_type = COPY) =>
          LET m == LastExecutedAt(ledger)
              a == ledger[m]
          IN  /\ fs' = [fs EXCEPT ![a.destination_path] = NoFile]
              /\ fs'[a.source_path] = fs[a.source_path]
              /\ ledger' = [ledger EXCEPT ![m].status = UNDONE]
      ]_vars

\* A copy has been made and then taken back by undo_last_action: the record is
\* Undone, the original is at its source and the destination is empty.
C26_Witness ==
    /\ Len(ret) = 1 /\ ret[1].status = UNDONE
    /\ \E i \in 1..Len(ledger) :
        /\ ledger[i].id = ret[1].id /\ ledger[i].status = UNDONE
        /\ ledger[i].action_type = COPY
        /\ fs[ledger[i].source_path] = InitFs[ledger[i].source_path]
        /\ Exists(fs, ledger[i].source_path)
        /\ fs[ledger[i].destination_path] = NoFile
        /\ origin[ledger[i].destination_path] = 0


\* ------------------------------------------------- undo of a CREATE_DIR
\* undo_last_action is called while the last Executed record is the creation
\* of the directory, which is there.
C27_Case ==
    /\ ExecutedAt(ledger) # {}
    /\ ledger[LastExecutedAt(ledger)].action_type = CREATE_DIR
    /\ probe.present

\* C27 (undo of a created directory): the undo of an Executed CREATE_DIR record
\* removes the directory when it is empty and marks the record Undone; when the
\* directory is not empty the undo fails, the directory and its entries are as
\* before, and the record stays Executed.
C27_CreateDirUndo ==
    [][ (UndoLastDir /\ C27_Case) =>
          LET m == LastExecutedAt(ledger)
          IN  IF probe.listing = {}
              THEN /\ ~probe'.present
                   /\ ledger' = [ledger EXCEPT ![m].status = UNDONE]
                   /\ ret' = <<[id |-> ledger[m].id, status |-> UNDONE]>>
              ELSE /\ probe' = probe
                   /\ ledger' = ledger
                   /\ ret' = <<[id |-> ledger[m].id, status |-> EXECUTED]>>
      ]_vars

\* The undo of the creation has just failed on a directory that holds a file:
\* the directory and the file are there and the record is still Executed.
C27_Witness ==
    /\ probe.fn = "dir" /\ probe.present /\ probe.listing # {}
    /\ Len(ret) = 1 /\ ret[1].status = EXECUTED
    /\ ExecutedAt(ledger) # {}
    /\ ledger[LastExecutedAt(ledger)].id = ret[1].id
    /\ ledger[LastExecutedAt(ledger)].action_type = CREATE_DIR


\* ------------------------------------------- where the moved file resides
\* The file that came from src is at dst itself.
ResidesAt(dst, src) ==
    IF dst \in Paths
    THEN fs[dst] # NoFile /\ origin[dst] = src
    ELSE dst = DirPath /\ ~probe.present /\ probe.file # NoFile

\* C28 (recorded destination): whenever a record is marked Executed, its
\* destination_path is not empty and is the very path at which the file resides
\* after the mutation, not a path inside destination_path.
C28_DestinationIsWhereTheFileIs ==
    [][ execute_change_success =>
          \A i \in 1..Len(ledger) :
              ledger[i].id = run.current =>
                  /\ ledger[i].destination_path # 0
                  /\ ResidesAt(ledger[i].destination_path, ledger[i].source_path)
      ]_vars


\* ------------------------------------------------ proposals of a scan
\* The session is the one scan_and_analyze made of the tree as it is.
JustScanned == probe.by = "scan" /\ probe.fresh

\* name is what the naming policy gives for source in a folder with the
\* listing: the dated name when free there, else its first free duplicate.
FollowsPolicy(listing, source, name) ==
    IF NewName(source) \notin listing
    THEN name = NewName(source)
    ELSE IsFirstFreeCandidate(listing, NewName(source), name)

\* C29 (advisory suggestion): every MOVE proposal of scan_and_analyze has a
\* destination that does not exist at proposal time and whose name is what the
\* naming and conflict policy gives in the destination's own folder, also when
\* the Classifier returned an absolute suggested_path.
C29_ProposalDestinationFree ==
    JustScanned =>
        \A i \in 1..Len(probe.changes) :
            probe.changes[i].action = MOVE =>
                /\ probe.changes[i].destination \notin probe.tree
                /\ FollowsPolicy(ListingOf(probe.tree, probe.changes[i].destination.folder),
                                 probe.changes[i].source.name,
                                 probe.changes[i].destination.name)

\* C30 (idempotent pipeline): a file whose name starts with a date is a Skip in
\* every session and is neither approved nor executed; approve_all,
\* approve_by_confidence and approve_by_category approve no Skip; and a scan
\* made after an execute proposes no MOVE for a file an earlier pass placed.
C30_SecondPassSkips ==
    /\ \A i \in 1..Len(probe.changes) :
            HasDatePrefix(probe.changes[i].source.name)
                => /\ probe.changes[i].action = SKIP
                   /\ ~probe.changes[i].executed
    /\ \A i \in 1..Len(probe.changes) :
            probe.changes[i].action = SKIP => ~probe.changes[i].approved
    /\ JustScanned =>
            \A i \in 1..Len(probe.changes) :
                probe.changes[i].action = MOVE
                    => probe.changes[i].source \notin probe.placed

\* A scan made after an execute that placed a file in a category folder: the
\* placed file is still there, and the new session has proposals, none of which
\* is about it.
C30_Witness ==
    /\ JustScanned /\ probe.scans = MaxScans /\ probe.runs > 0
    /\ \E f \in probe.placed : f \in probe.tree /\ f.folder \in Categories
    /\ Len(probe.changes) > 0


\* ------------------------------------------------- path-selection policy
\* C31 (path selection): every MOVE proposal of scan_and_analyze for a file
\* without a date prefix has its destination in the category folder under the
\* root, named <date>_<stem><ext> when that name is free there and otherwise
\* <date>_<stem>_k<ext> for the first free k = 1, 2, ...
C31_PathSelection ==
    JustScanned =>
        \A i \in 1..Len(probe.changes) :
            (probe.changes[i].action = MOVE
                    /\ ~HasDatePrefix(probe.changes[i].source.name)) =>
                /\ probe.changes[i].destination.folder = probe.changes[i].category
                /\ FollowsPolicy(ListingOf(probe.tree, probe.changes[i].category),
                                 probe.changes[i].source.name,
                                 probe.changes[i].destination.name)


\* ------------------------------------------------- Failed means not done
\* C32 (Failed only if not mutated): in every state of a run of execute, also
\* when a status update failed after the file was moved, no record is Failed
\* while the file it describes is at its destination_path, unless another
\* record of the same mutation is Executed (undo_batch selects it) or still
\* Pending (its status update is the next step).
C32_FailedMeansNotMutated ==
    \A i \in 1..Len(ledger) :
        ledger[i].status = FAILED =>
            ~ /\ Exists(fs, ledger[i].destination_path)
              /\ origin[ledger[i].destination_path] = ledger[i].source_path
              /\ ~HasRecord(ledger, ledger[i].source_path,
                            ledger[i].destination_path, {PENDING, EXECUTED})


\* ------------------------------------------------- executed changes
\* C33 (no second execution): a change whose executed flag is true is not
\* executed again: when a later execute(dry_run=False) on the same session
\* reaches such a change, it appends no ledger record for it and does not count
\* it as failed.
C33_ExecutedNotRepeated ==
    [][(execute_change_record /\ CurrentChange.executed)
            => UNCHANGED <<ledger, results>>]_vars


\* ------------------------------------------------- undo and other files
\* C34 (undo never destroys data): when undo_last_action works on a MOVE or
\* RENAME record while a file exists at the record's source_path, the undo
\* leaves that file as it is and the record stays Executed.
C34_UndoKeepsOtherFile ==
    [][ (UndoLast /\ ExecutedAt(ledger) # {}) =>
          LET r == ledger[LastExecutedAt(ledger)]
          IN  (r.action_type \in {MOVE, RENAME} /\ Exists(fs, r.source_path)) =>
                  /\ fs'[r.source_path] = fs[r.source_path]
                  /\ ledger'[LastExecutedAt(ledger)].status = EXECUTED
      ]_vars


\* ------------------------------------------------- frame of undo_batch
\* What every call of the undo manager leaves alone (tested before the call
\* itself is evaluated).
OutsideUndo == UNCHANGED <<lastrowid, clock, session, run, results, agent>>

\* The positions of the ledger that hold an Executed record of batch b.
ExecutedOf(L, b) == {i \in ExecutedAt(L) : L[i].batch_id = b}

\* C35 (undo_batch touches only its batch): undo_batch(b) leaves every record
\* whose batch_id differs from b as it is, changes a record of b only by
\* marking an Executed one Undone, and changes the filesystem at no path other
\* than the source and destination paths of the Executed records of b.
C35_UndoBatchFrame ==
    [][ \A b \in 1..MaxBatches :
          (OutsideUndo /\ UndoBatchOf(b)) =>
            /\ Len(ledger') = Len(ledger)
            /\ \A i \in 1..Len(ledger) :
                  \/ ledger'[i] = ledger[i]
                  \/ /\ i \in ExecutedOf(ledger, b)
                     /\ ledger'[i] = [ledger[i] EXCEPT !.status = UNDONE]
            /\ \A p \in Paths :
                  fs'[p] # fs[p] =>
                      \E i \in ExecutedOf(ledger, b) :
                          p \in {ledger[i].source_path, ledger[i].destination_path}
      ]_vars

\* undo_batch has undone a record of one batch while a record of another batch,
\* inserted later, is still Executed.
C35_Witness ==
    /\ Len(ret) >= 1
    /\ \E i, j \in 1..Len(ledger) :
        /\ ledger[i].id = ret[1].id /\ ledger[i].status = UNDONE
        /\ ledger[j].status = EXECUTED /\ ledger[j].id > ledger[i].id
        /\ ledger[j].batch_id # ledger[i].batch_id
        /\ ledger[j].batch_id # NoBatch /\ ledger[i].batch_id # NoBatch


\* ------------------------------------------------- undo at most once
\* A call of the undo manager: undo_last_action, undo_n_actions, undo_batch.
UndoCall == UndoLast \/ UndoN \/ UndoBatch \/ undo_session

\* C36 (undo at most once per record): no call of undo_last_action,
\* undo_n_actions or undo_batch changes or returns a record that is already
\* Undone, and an undo_batch(b) issued when no record of b is Executed (as right
\* after a fully successful undo_batch(b)) returns an empty list and changes
\* neither the ledger nor the filesystem.
C36_UndoAtMostOnce ==
    [][ /\ (OutsideUndo /\ UndoCall) =>
            \A i \in 1..Len(ledger) :
                ledger[i].status = UNDONE =>
                    /\ ledger'[i] = ledger[i]
                    /\ \A k \in 1..Len(ret') : ret'[k].id # ledger[i].id
        /\ \A b \in 1..MaxBatches :
            (OutsideUndo /\ ExecutedOf(ledger, b) = {} /\ UndoBatchOf(b)) =>
                ret' = <<>> /\ ledger' = ledger /\ fs' = fs
      ]_vars

\* The one batch of the session was executed to the end and undone in full,
\* and an undo call made after that returned an empty list.
C36_Witness ==
    /\ Idle /\ session.executed /\ clock = 2
    /\ ret = <<>>
    /\ ExecutedAt(ledger) = {}
    /\ \E i \in 1..Len(ledger) : ledger[i].status = UNDONE /\ ledger[i].batch_id = 1


\* ------------------------------------------------- partial batch undo
\* C37 (partial batch undo): undo_batch(b) goes through every Executed record of
\* the batch, also after the undo of a later-inserted record failed in the same
\* call: the returned list holds exactly the records this call moved from
\* Executed to Undone, every other record is unchanged (a record whose undo
\* failed stays Executed), and an Executed MOVE record whose file is at its
\* destination when the call starts, no other Executed record of the batch
\* having that destination, is undone whatever happened to the records fetched
\* before it.
C37_PartialBatchUndo ==
    [][ \A b \in 1..MaxBatches :
          (OutsideUndo /\ UndoBatchOf(b)) =>
            /\ \A i \in 1..Len(ledger) :
                  (\E k \in 1..Len(ret') : ret'[k].id = ledger[i].id)
                      <=> (ledger[i].status = EXECUTED /\ ledger'[i].status = UNDONE)
            /\ \A i \in 1..Len(ledger) :
                  (ledger[i].status # EXECUTED \/ ledger'[i].status # UNDONE)
                      => ledger'[i] = ledger[i]
            /\ \A i \in ExecutedOf(ledger, b) :
                  ( /\ ledger[i].action_type = MOVE
                    /\ Exists(fs, ledger[i].destination_path)
                    /\ \A j \in ExecutedOf(ledger, b) \ {i} :
                          ledger[j].destination_path # ledger[i].destination_path )
                      => ledger'[i].status = UNDONE
      ]_vars

\* undo_batch returned one record of a batch although the record of that batch
\* inserted after it could not be undone and is still Executed.
C37_Witness ==
    /\ Len(ret) = 1
    /\ \E i, j \in 1..Len(ledger) :
        /\ ledger[i].id = ret[1].id /\ ledger[i].status = UNDONE
        /\ ledger[j].id > ledger[i].id /\ ledger[j].status = EXECUTED
        /\ ledger[j].batch_id = ledger[i].batch_id /\ ledger[i].batch_id # NoBatch
        /\ ledger[j].action_type = MOVE /\ ~Exists(fs, ledger[j].destination_path)


\* ------------------------------------------------- approval by index
\* C38 (approval touches one flag): approve_single(i) and reject_single(i)
\* set the approved flag of exactly the change at index i and return True when
\* 0 <= i < len(session.changes); for any other index, or without a session,
\* they return False and change nothing.  Neither they nor approve_all change
\* an executed flag, the ledger or the filesystem.
C38_ApprovalFrame ==
    [][ /\ \A index \in Indices, flag \in BOOLEAN :
            SetApprovedAt(IF flag THEN "approve_single" ELSE "reject_single", index, flag) =>
                IF session.live /\ index >= 0 /\ index < Len(session.changes)
                THEN /\ probe'.returned = "True"
                     /\ session' = [session EXCEPT !.changes[index + 1].approved = flag]
                ELSE /\ probe'.returned = "False"
                     /\ session' = session
        /\ ((\E index \in Indices : approve_single_at(index) \/ reject_single_at(index))
                \/ approve_all) =>
                /\ UNCHANGED <<ledger, fs>>
                /\ Len(session'.changes) = Len(session.changes)
                /\ \A k \in 1..Len(session.changes) :
                        session'.changes[k].executed = session.changes[k].executed
      ]_vars


\* ------------------------------------------------- watcher events
\* C39 (no events for unchanged files): with two watched roots of which one's
\* path string is a prefix of the other's, every CREATED or DELETED event the
\* watcher has queued is for a file that was written or removed; polling
\* queues no such event for a file that did not change.
C39_NoEventWithoutChange ==
    probe.fn = "watch" =>
        \A e \in probe.queue :
            e.event_type \in {CREATED, DELETED} => e.path \in probe.touched

====
